---- MODULE Spec2Model ----
(***************************************************************************)
(* Conversion between a gmso Topology and a ParmEd Structure               *)
(* (gmso/external/convert_parmed.py).                                      *)
(*                                                                         *)
(* A ParmEd structure is a record S: atoms, residues, the five connection  *)
(* collections and the type tables.  An external type record is named by   *)
(* its table and its index in the table (its object identity); a           *)
(* connection refers to a record by that index, 0 standing for None.       *)
(* A gmso topology is a record T: sites, the four connection collections   *)
(* and a heap of type objects; an internal type object is named by its     *)
(* index in the heap, 0 standing for None.                                 *)
(*                                                                         *)
(* from_parmed and to_parmed are run step by step (pc), one action per     *)
(* block of the function.  A run starts with one of the two functions on   *)
(* an input drawn from a bounded family and may feed the result to the     *)
(* other function (the round trip).                                        *)
(***************************************************************************)
EXTENDS Integers, Sequences, FiniteSets, TLC

VARIABLES pc,          \* position in from_parmed / to_parmed
          first,       \* "from" | "to": the function the run started with
          chained,     \* the result of the first function was fed to the other
          refer_type,  \* the refer_type argument of both calls
          inS,         \* the structure given to from_parmed
          outT,        \* the topology from_parmed builds
          inT,         \* the topology given to to_parmed
          outS,        \* the structure to_parmed builds
          maps,        \* the local maps of from_parmed (type maps, member maps, site_map)
          gmaps,       \* the local maps of to_parmed (atype_map, btype_map, ...)
          warns,       \* warnings.warn calls, in order
          err,         \* the exception that ended the call, "none" if none
          log,         \* the steps of to_parmed that ran, in order
          calls,       \* calls of to_parmed made on inT so far
          gro          \* the .gro file: its lines, the lines read, the declared count

vars == <<pc, first, chained, refer_type, inS, outT, inT, outS, maps, gmaps,
          warns, err, log, calls, gro>>

(***************************************************************************)
(* Bounds of the model.                                                    *)
(***************************************************************************)
MaxAtoms == 4   \* atoms of an input structure / sites of an input topology
MaxTypes == 2   \* records in each type table of an input
MaxVal == 2     \* parameter values of the inputs range over 1..MaxVal
MaxCalls == 2   \* calls of to_parmed on one topology (set_expression between them)

None == <<>>

\* an exception: its class and the arguments of its message
Raised(kind, msg) == [kind |-> kind, msg |-> msg]

NoError == Raised("none", <<>>)

Range(s) == {s[i] : i \in DOMAIN s}

(***************************************************************************)
(* Quantities.  A length is [v, unit]; unyt converts nm to angstrom by     *)
(* multiplying the value by 10 and angstrom to nm by dividing by 10.       *)
(***************************************************************************)
Qty(v, unit) == [v |-> v, unit |-> unit]

ToAngstrom(q) ==
    IF q.unit = "nm" THEN Qty(10 * q.v, "angstrom") ELSE q

ToNm(q) ==
    IF q.unit = "angstrom" THEN Qty(q.v \div 10, "nm") ELSE q

VecToAngstrom(vec) == [i \in DOMAIN vec |-> ToAngstrom(vec[i])]

VecToNm(vec) == [i \in DOMAIN vec |-> ToNm(vec[i])]

VecQty(vals, unit) == [i \in DOMAIN vals |-> Qty(vals[i], unit)]

VecValues(vec) == [i \in DOMAIN vec |-> vec[i].v]

(***************************************************************************)
(* Potential expressions.  An expression is named by the string it is      *)
(* written as.  sympy parses a string to a tree in which sums and products *)
(* are flattened and ordered and an integer power of a quotient is         *)
(* distributed, but a product of symbols with a sum is not expanded:       *)
(* SympyTree gives the tree, and == on sympy expressions compares trees.   *)
(* AlgebraicForm gives the class of the expression under full              *)
(* simplification of a difference to zero.                                 *)
(***************************************************************************)
LJ_FACTORED == "4*epsilon*((sigma/r)**12 - (sigma/r)**6)"
LJ_PARMED == "4*epsilon*(-sigma**6/r**6 + sigma**12/r**12)"
LJ_EXPANDED == "4*epsilon*sigma**12/r**12 - 4*epsilon*sigma**6/r**6"
LINEAR == "sigma + epsilon*r"
HARMONIC_BOND == "0.5 * k * (r-r_eq)**2"
HARMONIC_BOND_EXPANDED == "0.5*k*r**2 - k*r*r_eq + 0.5*k*r_eq**2"
HARMONIC_ANGLE == "0.5 * k * (theta-theta_eq)**2"
HARMONIC_ANGLE_EXPANDED == "0.5*k*theta**2 - k*theta*theta_eq + 0.5*k*theta_eq**2"
PERIODIC == "k * (1 + cos(n * phi - phi_eq))"
PERIODIC_SQUARED == "k * (1 + cos(n * phi - phi_eq))**2"
RB == "c0 * cos(phi)**0 + c1 * cos(phi)**1 + c2 * cos(phi)**2 + c3 * cos(phi)**3 + c4 * cos(phi)**4 + c5 * cos(phi)**5"
HARMONIC_IMPROPER == "0.5 * k * ((phi - phi_eq))**2"

SympyTree(e) ==
    CASE e = LJ_FACTORED -> "Mul(4, epsilon, Add(Mul(-1, sigma**6, r**-6), Mul(sigma**12, r**-12)))"
      [] e = LJ_PARMED -> "Mul(4, epsilon, Add(Mul(-1, sigma**6, r**-6), Mul(sigma**12, r**-12)))"
      [] e = LJ_EXPANDED -> "Add(Mul(-4, epsilon, sigma**6, r**-6), Mul(4, epsilon, sigma**12, r**-12))"
      [] e = LINEAR -> "Add(sigma, Mul(epsilon, r))"
      [] e = HARMONIC_BOND -> "Mul(0.5, k, Pow(Add(r, Mul(-1, r_eq)), 2))"
      [] e = HARMONIC_BOND_EXPANDED -> "Add(Mul(0.5, k, r**2), Mul(-1, k, r, r_eq), Mul(0.5, k, r_eq**2))"
      [] e = HARMONIC_ANGLE -> "Mul(0.5, k, Pow(Add(theta, Mul(-1, theta_eq)), 2))"
      [] e = HARMONIC_ANGLE_EXPANDED -> "Add(Mul(0.5, k, theta**2), Mul(-1, k, theta, theta_eq), Mul(0.5, k, theta_eq**2))"
      [] e = PERIODIC -> "Mul(k, Add(1, cos(Add(Mul(n, phi), Mul(-1, phi_eq)))))"
      [] e = PERIODIC_SQUARED -> "Mul(k, Pow(Add(1, cos(Add(Mul(n, phi), Mul(-1, phi_eq)))), 2))"
      [] e = RB -> "Add(c0, Mul(c1, cos(phi)), Mul(c2, cos(phi)**2), Mul(c3, cos(phi)**3), Mul(c4, cos(phi)**4), Mul(c5, cos(phi)**5))"
      [] e = HARMONIC_IMPROPER -> "Mul(0.5, k, Pow(Add(phi, Mul(-1, phi_eq)), 2))"

AlgebraicForm(e) ==
    CASE e \in {LJ_FACTORED, LJ_PARMED, LJ_EXPANDED} -> "lennard-jones 12-6"
      [] e = LINEAR -> "linear"
      [] e \in {HARMONIC_BOND, HARMONIC_BOND_EXPANDED} -> "harmonic bond"
      [] e \in {HARMONIC_ANGLE, HARMONIC_ANGLE_EXPANDED} -> "harmonic angle"
      [] e = PERIODIC -> "periodic torsion"
      [] e = PERIODIC_SQUARED -> "squared periodic torsion"
      [] e = RB -> "ryckaert-bellemans"
      [] e = HARMONIC_IMPROPER -> "harmonic improper"

\* expression == parse_expr(string): equality of the parsed trees
ExprEq(e, s) == SympyTree(e) = SympyTree(s)

\* the two expressions are algebraically identical
AlgebraicallyEqual(e, s) == AlgebraicForm(e) = AlgebraicForm(s)


(***************************************************************************)
(* The defaults of the gmso type classes and of the template library that  *)
(* from_parmed takes its expressions from.                                 *)
(***************************************************************************)
BondTypeDefaultExpr == HARMONIC_BOND
AngleTypeDefaultExpr == HARMONIC_ANGLE
DihedralTypeDefaultExpr == PERIODIC_SQUARED
PeriodicImproperPotential == PERIODIC
HarmonicImproperPotential == HARMONIC_IMPROPER

(***************************************************************************)
(* Dictionaries.  A dict is the sequence of its entries [key, val] in      *)
(* insertion order.  A key is <<"id", table, i>> for id(record),           *)
(* <<"obj", table, i>> for the record itself, <<"str", name, 0>> for a     *)
(* string.  ParmEd's parameter types compare and hash by their parameter   *)
(* values, so two records used as keys are the same key when their values  *)
(* are equal; ids and strings are the same key when identical.             *)
(***************************************************************************)
IdKey(table, i) == <<"id", table, i>>
ObjKey(table, i) == <<"obj", table, i>>
StrKey(name) == <<"str", name, 0>>
NoneId == <<"id", "None", 0>>

\* id(x.type) of a connection whose type index is i in the given table
IdOfType(table, i) == IF i = 0 THEN NoneId ELSE IdKey(table, i)

PmdValue(S, k) == S[k[2]][k[3]]

KeyEq(S, k1, k2) ==
    IF k1[1] = "obj" /\ k2[1] = "obj"
    THEN k1[2] = k2[2] /\ PmdValue(S, k1) = PmdValue(S, k2)
    ELSE k1 = k2

DictHas(S, d, k) == \E i \in DOMAIN d : KeyEq(S, d[i].key, k)

DictGet(S, d, k) == d[CHOOSE i \in DOMAIN d : KeyEq(S, d[i].key, k)].val

\* d.get(k): None when the key is missing
DictGetOrNone(S, d, k) == IF DictHas(S, d, k) THEN DictGet(S, d, k) ELSE None

\* d[k] = v: a present key keeps its place (and the first key object), the value is replaced
DictPut(S, d, k, v) ==
    IF DictHas(S, d, k)
    THEN [i \in DOMAIN d |->
            IF KeyEq(S, d[i].key, k) THEN [key |-> d[i].key, val |-> v] ELSE d[i]]
    ELSE Append(d, [key |-> k, val |-> v])

RECURSIVE DictUpdate(_, _, _)
DictUpdate(S, d, other) ==
    IF other = <<>> THEN d
    ELSE DictUpdate(S, DictPut(S, d, Head(other).key, Head(other).val), Tail(other))

(***************************************************************************)
(* _get_member_types_map_for and _get_types_map.  The members of           *)
(* structure.bonds are Bond objects, of structure.angles Angle objects, of *)
(* structure.dihedrals and structure.rb_torsions Dihedral objects, of      *)
(* structure.impropers Improper objects.                                   *)
(***************************************************************************)
TableOf(attr) ==
    CASE attr = "bonds" -> "bond_types"
      [] attr = "angles" -> "angle_types"
      [] attr = "dihedrals" -> "dihedral_types"
      [] attr = "rb_torsions" -> "rb_torsion_types"
      [] attr = "impropers" -> "improper_types"

MemberLabels(S, member) == [j \in DOMAIN member.atoms |-> S.atoms[member.atoms[j]].type]

\* return None, (None, None); a label that is None is written "None"
NoMemberTypes == [id |-> <<"None", "None", 0>>, member_types |-> <<"None", "None">>]

get_member_types_map_for(S, attr, member, impropers) ==
    LET found == [id |-> IdOfType(member.type_table, member.type),
                  member_types |-> MemberLabels(S, member)]
    IN  IF attr \in {"bonds", "angles"} THEN found
        ELSE IF ~impropers
        THEN IF attr \in {"dihedrals", "rb_torsions"} /\ ~member.improper
             THEN found ELSE NoMemberTypes
        ELSE IF (attr \in {"dihedrals", "rb_torsions"} /\ member.improper)
                \/ attr = "impropers"
             THEN found ELSE NoMemberTypes

\* any(member_types): some label is neither None nor the empty string
AnyLabel(member_types) ==
    \E j \in DOMAIN member_types : member_types[j] \notin {"None", ""}

\* all(member_types): no label is None or the empty string
AllLabels(member_types) ==
    \A j \in DOMAIN member_types : member_types[j] \notin {"None", ""}

\* the loop in which a later instance replaces the tuple of its key
RECURSIVE TypesMapLoopLastWins(_, _, _, _, _)
TypesMapLoopLastWins(S, attr, impropers, i, type_map) ==
    IF i > Len(S[attr]) THEN type_map
    ELSE LET r == get_member_types_map_for(S, attr, S[attr][i], impropers)
         IN  TypesMapLoopLastWins(S, attr, impropers, i + 1,
                 IF AllLabels(r.member_types)
                 THEN DictPut(S, type_map, r.id, r.member_types)
                 ELSE type_map)

RECURSIVE TypesMapLoop(_, _, _, _, _)
TypesMapLoop(S, attr, impropers, i, type_map) ==
    IF i > Len(S[attr]) THEN type_map
    ELSE LET r == get_member_types_map_for(S, attr, S[attr][i], impropers)
         IN  TypesMapLoop(S, attr, impropers, i + 1,
                 IF ~DictHas(S, type_map, r.id) /\ AllLabels(r.member_types)
                 THEN DictPut(S, type_map, r.id, r.member_types)
                 ELSE type_map)

get_types_map(S, attr, impropers) == TypesMapLoop(S, attr, impropers, 1, <<>>)


(***************************************************************************)
(* Internal type objects and the topology.                                 *)
(***************************************************************************)
TypeObj(cls, name, expr, params, member_types) ==
    [cls |-> cls, name |-> name, expr |-> expr, params |-> params,
     member_types |-> member_types, charge |-> 0, mass |-> 0, element |-> None]

Connection(members, conn_type) == [members |-> members, conn_type |-> conn_type]

EmptyTop ==
    [isTopology |-> TRUE, name |-> "", box |-> None, sites |-> <<>>,
     bonds |-> <<>>, angles |-> <<>>, dihedrals |-> <<>>, impropers |-> <<>>,
     types |-> <<>>, combining_rule |-> "", is_updated |-> FALSE]

\* Topology.add_connection: the connection joins the collection of its class
add_connection(T, attr, conn) == [T EXCEPT ![attr] = Append(@, conn)]

(***************************************************************************)
(* _atom_types_from_pmd: the set of the atoms' AtomType objects (one per   *)
(* class of equal objects), one gmso AtomType for each.                    *)
(***************************************************************************)
RECURSIVE UniqueAtomTypes(_, _, _)
UniqueAtomTypes(S, i, acc) ==
    IF i > Len(S.atoms) THEN acc
    ELSE LET a == S.atoms[i].atom_type
         IN  UniqueAtomTypes(S, i + 1,
                 IF a # 0 /\ ~\E j \in DOMAIN acc : S.atom_types[acc[j]] = S.atom_types[a]
                 THEN Append(acc, a) ELSE acc)

AtomTypeFromPmd(at) ==
    [cls |-> "AtomType", name |-> at.name, expr |-> LJ_FACTORED,
     params |-> <<at.sigma, at.epsilon>>, member_types |-> None,
     charge |-> at.charge, mass |-> at.mass,
     element |-> IF at.atomic_number # 0 THEN <<"Z", at.atomic_number>>
                 ELSE <<"name", at.name>>]

RECURSIVE AtomTypesLoop(_, _, _, _)
AtomTypesLoop(S, uniq, heap, dict) ==
    IF uniq = <<>> THEN [heap |-> heap, dict |-> dict]
    ELSE AtomTypesLoop(S, Tail(uniq),
             Append(heap, AtomTypeFromPmd(S.atom_types[Head(uniq)])),
             DictPut(S, dict, ObjKey("atom_types", Head(uniq)), Len(heap) + 1))

atom_types_from_pmd(S, heap) ==
    AtomTypesLoop(S, UniqueAtomTypes(S, 1, <<>>), heap, <<>>)

(***************************************************************************)
(* _bond_types_from_pmd, _angle_types_from_pmd, _dihedral_types_from_pmd,  *)
(* _improper_types_from_pmd: one internal type object per record of the    *)
(* table, entered in the dict under the record (bond, angle, harmonic      *)
(* improper) or under id(record) (periodic and RB torsion types).          *)
(***************************************************************************)
BondTypeFromPmd(rec, member_types) ==
    TypeObj("BondType", "BondType", BondTypeDefaultExpr,
            <<2 * rec[1], rec[2]>>, member_types)

AngleTypeFromPmd(rec, member_types) ==
    TypeObj("AngleType", "AngleType", AngleTypeDefaultExpr,
            <<2 * rec[1], rec[2]>>, member_types)

DihedralTypeFromPmd(rec, member_types) ==
    TypeObj("DihedralType", "DihedralType", DihedralTypeDefaultExpr,
            <<rec[1], rec[3], rec[2]>>, member_types)

RBTypeFromPmd(rec, member_types) ==
    TypeObj("DihedralType", "DihedralType", RB, rec, member_types)

PeriodicImproperFromPmd(rec, member_types) ==
    TypeObj("ImproperType", "PeriodicImproperPotential", PeriodicImproperPotential,
            <<rec[1], rec[3], rec[2]>>, member_types)

HarmonicImproperFromPmd(rec, member_types) ==
    TypeObj("ImproperType", "HarmonicImproperPotential", HarmonicImproperPotential,
            rec, member_types)

MakeType(how, rec, member_types) ==
    CASE how = "bond" -> BondTypeFromPmd(rec, member_types)
      [] how = "angle" -> AngleTypeFromPmd(rec, member_types)
      [] how = "dihedral" -> DihedralTypeFromPmd(rec, member_types)
      [] how = "rb" -> RBTypeFromPmd(rec, member_types)
      [] how = "periodic_improper" -> PeriodicImproperFromPmd(rec, member_types)
      [] how = "harmonic_improper" -> HarmonicImproperFromPmd(rec, member_types)

\* the key a record is entered under in the pmd_top_* dict
TypeKey(how, table, i) ==
    IF how \in {"dihedral", "rb", "periodic_improper"}
    THEN IdKey(table, i) ELSE ObjKey(table, i)

RECURSIVE TypesLoop(_, _, _, _, _, _, _)
TypesLoop(S, how, table, i, member_map, heap, dict) ==
    IF i > Len(S[table]) THEN [heap |-> heap, dict |-> dict]
    ELSE LET member_types == DictGetOrNone(S, member_map, IdKey(table, i))
         IN  TypesLoop(S, how, table, i + 1, member_map,
                 Append(heap, MakeType(how, S[table][i], member_types)),
                 DictPut(S, dict, TypeKey(how, table, i), Len(heap) + 1))

bond_types_from_pmd(S, member_map, heap) ==
    TypesLoop(S, "bond", "bond_types", 1, member_map, heap, <<>>)

angle_types_from_pmd(S, member_map, heap) ==
    TypesLoop(S, "angle", "angle_types", 1, member_map, heap, <<>>)

dihedral_types_from_pmd(S, member_map, heap) ==
    LET periodic == TypesLoop(S, "dihedral", "dihedral_types", 1, member_map, heap, <<>>)
    IN  TypesLoop(S, "rb", "rb_torsion_types", 1, member_map, periodic.heap, periodic.dict)

improper_types_from_pmd(S, member_map, heap) ==
    LET periodic == TypesLoop(S, "periodic_improper", "dihedral_types", 1, member_map,
                              heap, <<>>)
    IN  TypesLoop(S, "harmonic_improper", "improper_types", 1, member_map,
                  periodic.heap, periodic.dict)


(***************************************************************************)
(* _check_independent_residues.                                            *)
(***************************************************************************)
\* atom.bond_partners: the atoms bonded to atom a
bond_partners(S, a) ==
    {S.bonds[i].atoms[1] : i \in {b \in DOMAIN S.bonds : S.bonds[b].atoms[2] = a}}
    \cup {S.bonds[i].atoms[2] : i \in {b \in DOMAIN S.bonds : S.bonds[b].atoms[1] = a}}

\* a comparison that only asks every atom of the residue to be a bond partner
ResidueCoveredByPartners(S, res) ==
    LET atoms_in_residue == Range(res.atoms)
        bond_partners_in_residue ==
            UNION {bond_partners(S, a) : a \in atoms_in_residue}
    IN  bond_partners_in_residue = {} \/ atoms_in_residue \subseteq bond_partners_in_residue

ResidueIsIndependent(S, res) ==
    LET atoms_in_residue == Range(res.atoms)
        bond_partners_in_residue ==
            UNION {bond_partners(S, a) : a \in atoms_in_residue}
    IN  bond_partners_in_residue = {} \/ atoms_in_residue = bond_partners_in_residue

check_independent_residues(S) ==
    \A r \in DOMAIN S.residues : ResidueIsIndependent(S, S.residues[r])

(***************************************************************************)
(* from_parmed, block by block.                                            *)
(***************************************************************************)
EmptyMaps ==
    [atomtypes |-> <<>>, bondtypes |-> <<>>, angletypes |-> <<>>,
     dihedraltypes |-> <<>>, impropertypes |-> <<>>,
     bond_types_map |-> <<>>, angle_types_map |-> <<>>,
     dihedral_types_map |-> <<>>, improper_types_map |-> <<>>,
     site_map |-> <<>>]

\* np.all(structure.box): a box is present and none of its six values is zero
HasBox(S) == S.box # None /\ \A i \in DOMAIN S.box : S.box[i] # 0

\* the lengths of the external box taken as nm without conversion
BoxFromPmdNoConversion(S) ==
    [lengths |-> VecQty(SubSeq(S.box, 1, 3), "nm"),
     angles |-> VecQty(SubSeq(S.box, 4, 6), "degree")]

BoxFromPmd(S) ==
    [lengths |-> VecToNm(VecQty(SubSeq(S.box, 1, 3), "angstrom")),
     angles |-> VecQty(SubSeq(S.box, 4, 6), "degree")]

\* the entry with the argument check after the topology has been made
FromEntryLateCheck ==
    /\ pc = "from_entry"
    /\ outT' = [EmptyTop EXCEPT !.name = inS.title,
                                !.box = IF HasBox(inS) THEN BoxFromPmd(inS) ELSE None]
    /\ IF ~inS.isStructure
       THEN /\ err' = Raised("AssertionError", <<"Provided argument is not a Parmed Structure">>)
            /\ pc' = "from_failed"
       ELSE /\ pc' = "from_types"
            /\ UNCHANGED err
    /\ maps' = EmptyMaps
    /\ UNCHANGED <<gro, first, chained, refer_type, inS, inT, outS, gmaps, warns, log, calls>>

\* lines 40-51: the argument check, the new topology, the box
FromEntry ==
    /\ pc = "from_entry"
    /\ IF ~inS.isStructure
       THEN /\ err' = Raised("AssertionError", <<"Provided argument is not a Parmed Structure">>)
            /\ pc' = "from_failed"
            /\ UNCHANGED outT
       ELSE /\ outT' = [EmptyTop EXCEPT !.name = inS.title,
                                        !.box = IF HasBox(inS) THEN BoxFromPmd(inS) ELSE None]
            /\ pc' = "from_types"
            /\ UNCHANGED err
    /\ maps' = EmptyMaps
    /\ UNCHANGED <<gro, first, chained, refer_type, inS, inT, outS, gmaps, warns, log, calls>>

\* lines 54-83: the type maps, when refer_type
FromTypes ==
    /\ pc = "from_types"
    /\ IF refer_type
       THEN LET S == inS
                at == atom_types_from_pmd(S, outT.types)
                bond_types_map == get_types_map(S, "bonds", FALSE)
                bt == bond_types_from_pmd(S, bond_types_map, at.heap)
                angle_types_map == get_types_map(S, "angles", FALSE)
                agt == angle_types_from_pmd(S, angle_types_map, bt.heap)
                dihedral_types_map ==
                    DictUpdate(S, get_types_map(S, "dihedrals", FALSE),
                               get_types_map(S, "rb_torsions", FALSE))
                dt == dihedral_types_from_pmd(S, dihedral_types_map, agt.heap)
                \* improper_types_map.update(_get_types_map(structure, "dihedrals"),
                \*                           impropers=True)
                improper_types_map ==
                    DictPut(S, DictUpdate(S, get_types_map(S, "impropers", FALSE),
                                          get_types_map(S, "dihedrals", FALSE)),
                            StrKey("impropers"), <<"True">>)
                it == improper_types_from_pmd(S, improper_types_map, dt.heap)
            IN  /\ outT' = [outT EXCEPT !.types = it.heap]
                /\ maps' = [maps EXCEPT !.atomtypes = at.dict,
                                        !.bondtypes = bt.dict,
                                        !.angletypes = agt.dict,
                                        !.dihedraltypes = dt.dict,
                                        !.impropertypes = it.dict,
                                        !.bond_types_map = bond_types_map,
                                        !.angle_types_map = angle_types_map,
                                        !.dihedral_types_map = dihedral_types_map,
                                        !.improper_types_map = improper_types_map]
       ELSE UNCHANGED <<outT, maps>>
    /\ pc' = "from_sites"
    /\ UNCHANGED <<gro, first, chained, refer_type, inS, inT, outS, gmaps, warns, err, log, calls>>

\* Charges are rationals <<numerator, denominator>>, in elementary charges.
Rat(n) == <<n, 1>>

\* Atom.charge: the atom's own charge, else the charge of its atom type, else 0
AtomCharge(S, atom) ==
    IF atom.charge # None THEN atom.charge
    ELSE IF atom.atom_type = 0 THEN Rat(0)
    ELSE S.atom_types[atom.atom_type].charge

\* for residue in structure.residues: for atom in residue.atoms
RECURSIVE ResidueWalk(_, _)
ResidueWalk(S, r) ==
    IF r > Len(S.residues) THEN <<>>
    ELSE [j \in DOMAIN S.residues[r].atoms |-> [atom |-> S.residues[r].atoms[j], res |-> r]]
         \o ResidueWalk(S, r + 1)

SiteFromAtom(S, dict, refer, ind_res, w) ==
    LET atom == S.atoms[w.atom]
        residue == S.residues[w.res]
    IN  [name |-> atom.name,
         charge |-> AtomCharge(S, atom),
         position |-> VecQty(atom.pos, "angstrom"),
         element |-> atom.element,
         mass |-> None,
         residue |-> <<residue.name, w.res - 1>>,
         molecule |-> IF ind_res THEN <<residue.name, w.res - 1>> ELSE None,
         atom_type |-> IF refer /\ atom.atom_type # 0
                       THEN DictGet(S, dict, ObjKey("atom_types", atom.atom_type))
                       ELSE 0]

\* lines 85-107: one site per atom, in the order of the residues
FromSites ==
    /\ pc = "from_sites"
    /\ LET S == inS
           ind_res == check_independent_residues(S)
           walk == ResidueWalk(S, 1)
           sites == [j \in DOMAIN walk |->
                        SiteFromAtom(S, maps.atomtypes, refer_type, ind_res, walk[j])]
       IN  /\ outT' = [outT EXCEPT !.sites = sites]
           /\ maps' = [maps EXCEPT !.site_map =
                          [a \in DOMAIN S.atoms |->
                              IF \E j \in DOMAIN walk : walk[j].atom = a
                              THEN CHOOSE j \in DOMAIN walk : walk[j].atom = a
                              ELSE 0]]
    /\ pc' = "from_bonds"
    /\ UNCHANGED <<gro, first, chained, refer_type, inS, inT, outS, gmaps, warns, err, log, calls>>


(***************************************************************************)
(* The connection loops of from_parmed (lines 109-226).                    *)
(***************************************************************************)
\* every member of structure.dihedrals becomes a Dihedral, flagged or not
TargetIgnoringFlag(attr, conn) ==
    CASE attr = "bonds" ->
           [how |-> "bond", table |-> "bond_types", out |-> "bonds", dict |-> "bondtypes"]
      [] attr = "angles" ->
           [how |-> "angle", table |-> "angle_types", out |-> "angles", dict |-> "angletypes"]
      [] attr = "dihedrals" ->
           [how |-> "dihedral", table |-> "dihedral_types", out |-> "dihedrals",
            dict |-> "dihedraltypes"]
      [] attr = "rb_torsions" ->
           [how |-> "rb", table |-> "rb_torsion_types", out |-> "dihedrals",
            dict |-> "dihedraltypes"]
      [] attr = "impropers" ->
           [how |-> "harmonic_improper", table |-> "improper_types",
            out |-> "impropers", dict |-> "impropertypes"]

\* what an external connection becomes: the class of the internal connection
\* (the collection it joins), the dict its type is looked up in and the key
Target(attr, conn) ==
    CASE attr = "bonds" ->
           [how |-> "bond", table |-> "bond_types", out |-> "bonds", dict |-> "bondtypes"]
      [] attr = "angles" ->
           [how |-> "angle", table |-> "angle_types", out |-> "angles", dict |-> "angletypes"]
      [] attr = "dihedrals" ->
           IF conn.improper
           THEN [how |-> "periodic_improper", table |-> "dihedral_types",
                 out |-> "impropers", dict |-> "impropertypes"]
           ELSE [how |-> "dihedral", table |-> "dihedral_types",
                 out |-> "dihedrals", dict |-> "dihedraltypes"]
      [] attr = "rb_torsions" ->
           [how |-> "rb", table |-> "rb_torsion_types", out |-> "dihedrals",
            dict |-> "dihedraltypes"]
      [] attr = "impropers" ->
           [how |-> "harmonic_improper", table |-> "improper_types",
            out |-> "impropers", dict |-> "impropertypes"]

\* isinstance(conn.type, <the class of the records of the table>)
HasTypeOf(conn, table) == conn.type # 0 /\ conn.type_table = table

\* the members taken last atom first
MembersOfReversed(site_map, conn) ==
    [j \in DOMAIN conn.atoms |-> site_map[conn.atoms[Len(conn.atoms) + 1 - j]]]

\* connection_members=[site_map[atom1], site_map[atom2], ...]
MembersOf(site_map, conn) == [j \in DOMAIN conn.atoms |-> site_map[conn.atoms[j]]]

\* a lookup that hands out a fresh copy of the object the dict holds
LookupTypeCopy(S, heap, dict, key) ==
    [heap |-> Append(heap, heap[DictGet(S, dict, key)]), id |-> Len(heap) + 1]

\* top_connection.x_type = pmd_top_xtypes[key]: the object the dict holds
LookupType(S, heap, dict, key) == [heap |-> heap, id |-> DictGet(S, dict, key)]

ConvertConn(S, T, m, refer, attr, conn) ==
    LET tgt == Target(attr, conn)
        lk == IF refer /\ HasTypeOf(conn, tgt.table)
              THEN LookupType(S, T.types, m[tgt.dict], TypeKey(tgt.how, tgt.table, conn.type))
              ELSE [heap |-> T.types, id |-> 0]
    IN  add_connection([T EXCEPT !.types = lk.heap], tgt.out,
                       Connection(MembersOf(m.site_map, conn), lk.id))

RECURSIVE ConnLoop(_, _, _, _, _, _)
ConnLoop(S, T, m, refer, attr, i) ==
    IF i > Len(S[attr]) THEN [top |-> T, err |-> NoError]
    ELSE LET conn == S[attr][i]
             tgt == Target(attr, conn)
         IN  IF refer /\ HasTypeOf(conn, tgt.table)
                /\ ~DictHas(S, m[tgt.dict], TypeKey(tgt.how, tgt.table, conn.type))
             THEN [top |-> T, err |-> Raised("KeyError", <<>>)]
             ELSE ConnLoop(S, ConvertConn(S, T, m, refer, attr, conn), m, refer, attr, i + 1)

\* a loop that warns about nothing
ImproperWarningsNone(S, attr, text) == <<>>

\* the warnings of a loop: one for each member flagged improper
ImproperWarnings(S, attr, text) ==
    LET flagged == SelectSeq([i \in DOMAIN S[attr] |-> i], LAMBDA i : S[attr][i].improper)
    IN  IF attr \in {"dihedrals", "rb_torsions"}
        THEN [j \in DOMAIN flagged |-> <<text, attr, flagged[j]>>]
        ELSE <<>>

FromLoop(here, attr, next, text) ==
    /\ pc = here
    /\ LET r == ConnLoop(inS, outT, maps, refer_type, attr, 1)
       IN  /\ outT' = r.top
           /\ err' = r.err
           /\ pc' = IF r.err = NoError THEN next ELSE "from_failed"
    /\ warns' = warns \o ImproperWarnings(inS, attr, text)
    /\ UNCHANGED <<gro, first, chained, refer_type, inS, inT, outS, maps, gmaps, log, calls>>

FromBonds == FromLoop("from_bonds", "bonds", "from_angles", "")

FromAngles == FromLoop("from_angles", "angles", "from_dihedrals", "")

FromDihedrals ==
    FromLoop("from_dihedrals", "dihedrals", "from_rb_torsions",
             "accounted for as topology.Improper with a periodic improper expression")

FromRBTorsions ==
    FromLoop("from_rb_torsions", "rb_torsions", "from_impropers",
             "accounted for as topology.Dihedral with a RB torsion expression")

FromImpropers == FromLoop("from_impropers", "impropers", "from_final", "")

\* lines 228-230: update_topology, the combining rule, return top
FromFinal ==
    /\ pc = "from_final"
    /\ outT' = [outT EXCEPT !.is_updated = TRUE, !.combining_rule = inS.combining_rule]
    /\ pc' = "from_done"
    /\ UNCHANGED <<gro, first, chained, refer_type, inS, inT, outS, maps, gmaps, warns, err, log,
                   calls>>


(***************************************************************************)
(* to_parmed, block by block.                                              *)
(***************************************************************************)
EmptyStructure ==
    [isStructure |-> TRUE, title |-> "", box |-> None,
     atoms |-> <<>>, residues |-> <<>>, atom_types |-> <<>>,
     bonds |-> <<>>, angles |-> <<>>, dihedrals |-> <<>>, rb_torsions |-> <<>>,
     impropers |-> <<>>,
     bond_types |-> <<>>, angle_types |-> <<>>, dihedral_types |-> <<>>,
     rb_torsion_types |-> <<>>, improper_types |-> <<>>,
     combining_rule |-> "lorentz", claimed |-> <<>>]

EmptyGmaps ==
    [atype_map |-> <<>>, btype_map |-> <<>>, agltype_map |-> <<>>, dtype_map |-> <<>>]

\* a Bond, Angle, Dihedral or Improper of the structure: its atoms, its type
\* (the table of the record and its index there, 0 for None), its improper flag
PmdConn(atoms, type_table, type, improper) ==
    [atoms |-> atoms, type_table |-> type_table, type |-> type, improper |-> improper]

\* top.atom_types, top.bond_types, ...: the distinct type objects the sites
\* (connections) of the topology carry, in the order of their first use
RECURSIVE DistinctTypes(_, _)
DistinctTypes(ids, acc) ==
    IF ids = <<>> THEN acc
    ELSE DistinctTypes(Tail(ids),
             IF Head(ids) # 0 /\ Head(ids) \notin Range(acc)
             THEN Append(acc, Head(ids)) ELSE acc)

atom_types(T) == DistinctTypes([i \in DOMAIN T.sites |-> T.sites[i].atom_type], <<>>)

connection_types(T, attr) ==
    DistinctTypes([i \in DOMAIN T[attr] |-> T[attr][i].conn_type], <<>>)

\* the box of the structure: lengths in angstrom, angles in degree
BoxFromGmso(T) ==
    VecValues(VecToAngstrom(T.box.lengths)) \o VecValues(T.box.angles)

\* lines 504-526: the argument check, the new structure, title and box
ToEntry ==
    /\ pc = "to_entry"
    /\ IF ~inT.isTopology
       THEN /\ err' = Raised("AssertionError", <<>>)
            /\ pc' = "to_failed"
            /\ UNCHANGED outS
       ELSE /\ outS' = [EmptyStructure EXCEPT
                           !.title = inT.name,
                           !.box = IF inT.box # None THEN BoxFromGmso(inT) ELSE None]
            /\ pc' = "to_atoms"
            /\ err' = NoError
    /\ gmaps' = EmptyGmaps
    /\ log' = <<>>
    /\ calls' = calls + 1
    /\ UNCHANGED <<gro, first, chained, refer_type, inS, outT, inT, maps, warns>>

\* Structure.add_atom: the atom joins the last residue when name and number
\* are those of the last residue, else it opens a new residue
add_atom(S, atom, resname, resnum) ==
    LET a == Len(S.atoms) + 1
        last == Len(S.residues)
    IN  IF last = 0 \/ S.residues[last].number # resnum \/ S.residues[last].name # resname
        THEN [S EXCEPT !.atoms = Append(@, atom),
                       !.residues = Append(@, [name |-> resname, number |-> resnum,
                                               atoms |-> <<a>>])]
        ELSE [S EXCEPT !.atoms = Append(@, atom),
                       !.residues[last].atoms = Append(@, a)]

\* the value of the position without the conversion to angstrom
PositionToPmdNoConversion(position) == VecValues(position)

\* site.position.to("angstrom").value
PositionToPmd(position) == VecValues(VecToAngstrom(position))

AtomFromSite(site) ==
    [name |-> site.name,
     type |-> "",
     atom_type |-> 0,
     mass |-> site.mass,
     charge |-> IF site.charge[1] # 0 THEN site.charge ELSE None,
     pos |-> PositionToPmd(site.position),
     element |-> site.element]

RECURSIVE AtomsLoop(_, _, _)
AtomsLoop(T, S, i) ==
    IF i > Len(T.sites) THEN S
    ELSE LET site == T.sites[i]
         IN  AtomsLoop(T,
                 IF site.residue # None
                 THEN add_atom(S, AtomFromSite(site), site.residue[1], site.residue[2])
                 ELSE add_atom(S, AtomFromSite(site), "RES", -1),
                 i + 1)

\* lines 530-554: one atom per site
ToAtoms ==
    /\ pc = "to_atoms"
    /\ outS' = AtomsLoop(inT, outS, 1)
    /\ log' = Append(log, "atoms")
    /\ pc' = "to_claim"
    /\ UNCHANGED <<gro, first, chained, refer_type, inS, outT, inT, maps, gmaps, warns, err, calls>>

\* a to_parmed that goes on to the bonds without claiming the residue list
ToClaimSkipped ==
    /\ pc = "to_claim"
    /\ pc' = "to_bonds"
    /\ UNCHANGED <<gro, first, chained, refer_type, inS, outT, inT, outS, maps, gmaps, warns, err,
                   log, calls>>

\* line 557: structure.residues.claim()
ToClaim ==
    /\ pc = "to_claim"
    /\ outS' = [outS EXCEPT !.claimed = Append(@, "residues")]
    /\ log' = Append(log, "residues.claim")
    /\ pc' = "to_bonds"
    /\ UNCHANGED <<gro, first, chained, refer_type, inS, outT, inT, maps, gmaps, warns, err, calls>>

\* lines 560-571: pmd.Bond / pmd.Angle over atom_map[site]; atom_map takes
\* the i-th site to the i-th atom
ToBonds ==
    /\ pc = "to_bonds"
    /\ outS' = [outS EXCEPT !.bonds =
                   [i \in DOMAIN inT.bonds |-> PmdConn(inT.bonds[i].members, "", 0, FALSE)]]
    /\ log' = Append(log, "bonds")
    /\ pc' = "to_angles"
    /\ UNCHANGED <<gro, first, chained, refer_type, inS, outT, inT, maps, gmaps, warns, err, calls>>

ToAngles ==
    /\ pc = "to_angles"
    /\ outS' = [outS EXCEPT !.angles =
                   [i \in DOMAIN inT.angles |-> PmdConn(inT.angles[i].members, "", 0, FALSE)]]
    /\ log' = Append(log, "angles")
    /\ pc' = "to_dihedrals"
    /\ UNCHANGED <<gro, first, chained, refer_type, inS, outT, inT, maps, gmaps, warns, err, calls>>

\* a test of lines 580-591 that looks at the presence of a type only
IsTypedDihedral(T, dihedral) == dihedral.conn_type # 0

\* lines 580-591: the dihedral has a type and its expression is the RB form
IsRBDihedral(T, dihedral) ==
    dihedral.conn_type # 0 /\ ExprEq(T.types[dihedral.conn_type].expr, RB)

\* dihedral_map: where the i-th dihedral of the topology went
DihedralPlace(T, i) ==
    LET before == SubSeq(T.dihedrals, 1, i)
        rb == IsRBDihedral(T, T.dihedrals[i])
    IN  [attr |-> IF rb THEN "rb_torsions" ELSE "dihedrals",
         idx |-> Len(SelectSeq(before, LAMBDA d : IsRBDihedral(T, d) = rb))]

\* lines 575-595
ToDihedrals ==
    /\ pc = "to_dihedrals"
    /\ LET rb == SelectSeq(inT.dihedrals, LAMBDA d : IsRBDihedral(inT, d))
           periodic == SelectSeq(inT.dihedrals, LAMBDA d : ~IsRBDihedral(inT, d))
       IN  outS' = [outS EXCEPT
                       !.rb_torsions = [i \in DOMAIN rb |-> PmdConn(rb[i].members, "", 0, FALSE)],
                       !.dihedrals =
                           [i \in DOMAIN periodic |-> PmdConn(periodic[i].members, "", 0, FALSE)]]
    /\ log' = Append(log, "dihedrals")
    /\ pc' = "to_atom_types"
    /\ UNCHANGED <<gro, first, chained, refer_type, inS, outT, inT, maps, gmaps, warns, err, calls>>


(***************************************************************************)
(* The type transfer of to_parmed (lines 598-607 and 630-834).  The maps   *)
(* of these functions are dicts keyed by a string (atype_map) or by an     *)
(* internal type object (btype_map, agltype_map, dtype_map).               *)
(***************************************************************************)
GHas(d, k) == \E i \in DOMAIN d : d[i].key = k

GGet(d, k) == d[CHOOSE i \in DOMAIN d : d[i].key = k].val

GPut(d, k, v) ==
    IF GHas(d, k)
    THEN [i \in DOMAIN d |-> IF d[i].key = k THEN [key |-> k, val |-> v] ELSE d[i]]
    ELSE Append(d, [key |-> k, val |-> v])

\* 0.5 * k
Half(x) == x \div 2

\* the elementary charge in units of 1e-22 C (unyt) and the divisor of line 656
ELEMENTARY_CHARGE_E22 == 1602
CHARGE_DIVISOR_E22 == 1600

\* float(atom_type.charge.to("Coulomb").value) / (1.6 * 10 ** (-19))
ChargeToPmd(charge) == <<charge[1] * ELEMENTARY_CHARGE_E22, charge[2] * CHARGE_DIVISOR_E22>>

\* element_by_atom_type(atom_type): mass and atomic number of the element
ElementOf(atom_type) ==
    [mass |-> atom_type.mass,
     atomic_number |-> IF atom_type.element # None /\ atom_type.element[1] = "Z"
                       THEN atom_type.element[2] ELSE 0]

PmdAtomType(atom_type) ==
    [name |-> atom_type.name,
     charge |-> ChargeToPmd(atom_type.charge),
     sigma |-> atom_type.params[1],
     epsilon |-> atom_type.params[2],
     mass |-> ElementOf(atom_type).mass,
     atomic_number |-> ElementOf(atom_type).atomic_number]

\* the expression check of the atom types (lines 649-651)
AtomTypeMatches(atom_type) == ExprEq(atom_type.expr, LJ_PARMED)

RECURSIVE AtomTypesFromGmsoLoop(_, _, _, _)
AtomTypesFromGmsoLoop(T, S, types, atype_map) ==
    IF types = <<>> THEN [S |-> S, map |-> atype_map, err |-> NoError]
    ELSE LET atom_type == T.types[Head(types)]
         IN  IF ~AtomTypeMatches(atom_type)
             THEN [S |-> S, map |-> atype_map,
                   err |-> Raised("AssertionError",
                                  <<"Atom type {} expression does not match Parmed AtomType default expression",
                                    atom_type.name>>)]
             ELSE AtomTypesFromGmsoLoop(T,
                      [S EXCEPT !.atom_types = Append(@, PmdAtomType(atom_type))],
                      Tail(types),
                      GPut(atype_map, atom_type.name, Len(S.atom_types) + 1))

\* lines 676-680: every atom gets the name and the record of its site's type
RECURSIVE AssignAtomTypes(_, _, _, _)
AssignAtomTypes(T, S, atype_map, i) ==
    IF i > Len(T.sites) THEN [S |-> S, err |-> NoError]
    ELSE LET site == T.sites[i]
         IN  IF site.atom_type = 0
             THEN [S |-> S, err |-> Raised("AttributeError", <<"name">>)]
             ELSE LET name == T.types[site.atom_type].name
                  IN  AssignAtomTypes(T,
                          [S EXCEPT !.atoms[i].type = name,
                                    !.atoms[i].atom_type = GGet(atype_map, name)],
                          atype_map, i + 1)

atom_types_from_gmso(T, S) ==
    LET built == AtomTypesFromGmsoLoop(T, S, atom_types(T), <<>>)
    IN  IF built.err # NoError THEN built
        ELSE LET assigned == AssignAtomTypes(T, built.S, built.map, 1)
             IN  [S |-> assigned.S, map |-> built.map, err |-> assigned.err]


(***************************************************************************)
(* _bond_types_from_gmso and _angle_types_from_gmso.                       *)
(***************************************************************************)
BondTypeMatches(bond_type) == ExprEq(bond_type.expr, HARMONIC_BOND)

AngleTypeMatches(angle_type) == ExprEq(angle_type.expr, HARMONIC_ANGLE)

\* pmd.BondType(0.5 * k, r_eq), pmd.AngleType(0.5 * k, theta_eq)
PmdHarmonicType(t) == <<Half(t.params[1]), t.params[2]>>

RECURSIVE HarmonicTypesLoop(_, _, _, _, _)
HarmonicTypesLoop(T, S, table, types, map) ==
    IF types = <<>> THEN [S |-> S, map |-> map, err |-> NoError]
    ELSE LET t == T.types[Head(types)]
             ok == IF table = "bond_types" THEN BondTypeMatches(t) ELSE AngleTypeMatches(t)
             msg == IF table = "bond_types"
                    THEN "Bond type {} expression does not match Parmed BondType default expression"
                    ELSE "Angle type {} expression does not match Parmed AngleType default expression"
         IN  IF ~ok
             THEN [S |-> S, map |-> map, err |-> Raised("AssertionError", <<msg, t.name>>)]
             ELSE HarmonicTypesLoop(T,
                      [S EXCEPT ![table] = Append(@, PmdHarmonicType(t))],
                      table, Tail(types),
                      GPut(map, Head(types), Len(S[table]) + 1))

\* pmd_bond.type = btype_map[bond.connection_type], for every bond
RECURSIVE AssignConnTypes(_, _, _, _, _, _)
AssignConnTypes(T, S, attr, table, map, i) ==
    IF i > Len(T[attr]) THEN [S |-> S, err |-> NoError]
    ELSE LET conn == T[attr][i]
         IN  IF ~GHas(map, conn.conn_type)
             THEN [S |-> S, err |-> Raised("KeyError", <<"None">>)]
             ELSE AssignConnTypes(T,
                      [S EXCEPT ![attr][i].type = GGet(map, conn.conn_type),
                                ![attr][i].type_table = table],
                      attr, table, map, i + 1)

harmonic_types_from_gmso(T, S, attr, table) ==
    LET built == HarmonicTypesLoop(T, S, table, connection_types(T, attr), <<>>)
    IN  IF built.err # NoError THEN built
        ELSE LET assigned == AssignConnTypes(T, built.S, attr, table, built.map, 1)
             IN  IF assigned.err # NoError
                 THEN [S |-> assigned.S, map |-> built.map, err |-> assigned.err]
                 ELSE [S |-> [assigned.S EXCEPT !.claimed = Append(@, table)],
                       map |-> built.map, err |-> NoError]

bond_types_from_gmso(T, S) == harmonic_types_from_gmso(T, S, "bonds", "bond_types")

angle_types_from_gmso(T, S) == harmonic_types_from_gmso(T, S, "angles", "angle_types")

(***************************************************************************)
(* _dihedral_types_from_gmso.  A value of dtype_map names the table the    *)
(* record was appended to and its index there.                             *)
(***************************************************************************)
\* line 782: the form a dihedral type is matched against for a periodic record
DihedralTypeMatchesPeriodic(dihedral_type) == ExprEq(dihedral_type.expr, PERIODIC_SQUARED)

\* line 794
DihedralTypeMatchesRB(dihedral_type) == ExprEq(dihedral_type.expr, RB)

\* pmd.DihedralType(k, n, phi_eq)
PmdDihedralType(t) == <<t.params[1], t.params[3], t.params[2]>>

RECURSIVE DihedralTypesLoop(_, _, _, _)
DihedralTypesLoop(T, S, types, dtype_map) ==
    IF types = <<>> THEN [S |-> S, map |-> dtype_map, err |-> NoError]
    ELSE LET t == T.types[Head(types)]
         IN  IF DihedralTypeMatchesPeriodic(t)
             THEN DihedralTypesLoop(T,
                      [S EXCEPT !.dihedral_types = Append(@, PmdDihedralType(t))],
                      Tail(types),
                      GPut(dtype_map, Head(types),
                           <<"dihedral_types", Len(S.dihedral_types) + 1>>))
             ELSE IF DihedralTypeMatchesRB(t)
             THEN DihedralTypesLoop(T,
                      [S EXCEPT !.rb_torsion_types = Append(@, t.params)],
                      Tail(types),
                      GPut(dtype_map, Head(types),
                           <<"rb_torsion_types", Len(S.rb_torsion_types) + 1>>))
             ELSE [S |-> S, map |-> dtype_map, err |-> Raised("GMSOError", <<"msg">>)]

\* lines 830-832: pmd_dihedral.type = dtype_map[dihedral.connection_type]
RECURSIVE AssignDihedralTypes(_, _, _, _)
AssignDihedralTypes(T, S, dtype_map, i) ==
    IF i > Len(T.dihedrals) THEN [S |-> S, err |-> NoError]
    ELSE LET dihedral == T.dihedrals[i]
             place == DihedralPlace(T, i)
         IN  IF ~GHas(dtype_map, dihedral.conn_type)
             THEN [S |-> S, err |-> Raised("KeyError", <<"None">>)]
             ELSE AssignDihedralTypes(T,
                      [S EXCEPT ![place.attr][place.idx] =
                          [@ EXCEPT !.type = GGet(dtype_map, dihedral.conn_type)[2],
                                    !.type_table = GGet(dtype_map, dihedral.conn_type)[1]]],
                      dtype_map, i + 1)

dihedral_types_from_gmso(T, S) ==
    LET built == DihedralTypesLoop(T, S, connection_types(T, "dihedrals"), <<>>)
    IN  IF built.err # NoError THEN built
        ELSE LET assigned == AssignDihedralTypes(T, built.S, built.map, 1)
             IN  IF assigned.err # NoError
                 THEN [S |-> assigned.S, map |-> built.map, err |-> assigned.err]
                 ELSE [S |-> [assigned.S EXCEPT
                                 !.claimed = @ \o <<"dihedral_types", "rb_torsions">>],
                       map |-> built.map, err |-> NoError]


\* the type transfer that runs whatever refer_type is
ToTypesIgnoringFlag(here, next, step, types, r) ==
    /\ pc = here
    /\ IF types # <<>>
       THEN /\ outS' = r.S
            /\ gmaps' = [gmaps EXCEPT ![step.map] = r.map]
            /\ err' = r.err
            /\ log' = Append(log, step.name)
            /\ pc' = IF r.err = NoError THEN next ELSE "to_failed"
       ELSE /\ pc' = next
            /\ UNCHANGED <<outS, gmaps, err, log>>
    /\ UNCHANGED <<gro, first, chained, refer_type, inS, outT, inT, maps, warns, calls>>

\* lines 598-607: each transfer runs when refer_type and the topology has a
\* type of the kind
ToTypes(here, next, step, types, r) ==
    /\ pc = here
    /\ IF refer_type /\ types # <<>>
       THEN /\ outS' = r.S
            /\ gmaps' = [gmaps EXCEPT ![step.map] = r.map]
            /\ err' = r.err
            /\ log' = Append(log, step.name)
            /\ pc' = IF r.err = NoError THEN next ELSE "to_failed"
       ELSE /\ pc' = next
            /\ UNCHANGED <<outS, gmaps, err, log>>
    /\ UNCHANGED <<gro, first, chained, refer_type, inS, outT, inT, maps, warns, calls>>

ToAtomTypes ==
    ToTypes("to_atom_types", "to_bond_types",
            [name |-> "atom_types", map |-> "atype_map"],
            atom_types(inT), atom_types_from_gmso(inT, outS))

ToBondTypes ==
    ToTypes("to_bond_types", "to_angle_types",
            [name |-> "bond_types", map |-> "btype_map"],
            connection_types(inT, "bonds"), bond_types_from_gmso(inT, outS))

ToAngleTypes ==
    ToTypes("to_angle_types", "to_dihedral_types",
            [name |-> "angle_types", map |-> "agltype_map"],
            connection_types(inT, "angles"), angle_types_from_gmso(inT, outS))

ToDihedralTypes ==
    ToTypes("to_dihedral_types", "to_return",
            [name |-> "dihedral_types", map |-> "dtype_map"],
            connection_types(inT, "dihedrals"), dihedral_types_from_gmso(inT, outS))

\* line 609: return structure
ToReturn ==
    /\ pc = "to_return"
    /\ pc' = "to_done"
    /\ UNCHANGED <<gro, first, chained, refer_type, inS, outT, inT, outS, maps, gmaps, warns, err,
                   log, calls>>

(***************************************************************************)
(* The callers.  A round trip gives the result of the first function to    *)
(* the other one; test_modified_potentials changes the expression of the   *)
(* first atom type of the topology and converts it again.                  *)
(***************************************************************************)
\* to_parmed(from_parmed(S))
ChainToParmed ==
    /\ pc = "from_done"
    /\ first = "from"
    /\ ~chained
    /\ chained' = TRUE
    /\ inT' = outT
    /\ pc' = "to_entry"
    /\ UNCHANGED <<gro, first, refer_type, inS, outT, outS, maps, gmaps, warns, err, log, calls>>

\* from_parmed(to_parmed(T))
ChainFromParmed ==
    /\ pc = "to_done"
    /\ first = "to"
    /\ ~chained
    /\ chained' = TRUE
    /\ inS' = outS
    /\ pc' = "from_entry"
    /\ UNCHANGED <<gro, first, refer_type, outT, inT, outS, maps, gmaps, warns, err, log, calls>>

AtomTypeExprs == {LJ_FACTORED, LJ_PARMED, LJ_EXPANDED, LINEAR}

\* list(top.atom_types)[0].set_expression(expr), then the conversion again
SetExpression ==
    /\ pc \in {"to_done", "to_failed"}
    /\ first = "to"
    /\ ~chained
    /\ calls < MaxCalls
    /\ inT.isTopology
    /\ atom_types(inT) # <<>>
    /\ \E expr \in AtomTypeExprs :
          /\ expr # inT.types[atom_types(inT)[1]].expr
          /\ inT' = [inT EXCEPT !.types[atom_types(inT)[1]].expr = expr]
    /\ pc' = "to_entry"
    /\ UNCHANGED <<gro, first, chained, refer_type, inS, outT, outS, maps, gmaps, warns, err, log,
                   calls>>


(***************************************************************************)
(* formats/gro.py.  A file is a sequence of lines and a line the sequence  *)
(* of the tokens that line.split() gives.  A token is kept with what       *)
(* float(), int() and the residue pattern ([0-9]+)([a-zA-Z]+) make of it:  *)
(* "int" is a run of digits, "float" a decimal number, "res" digits        *)
(* followed by letters (the number v and the name), "word" any other text. *)
(***************************************************************************)
Tok(s, v, name) == [s |-> s, v |-> v, name |-> name]

Line(content) == [eof |-> FALSE, content |-> content]

\* readline() at the end of the file returns the empty string
EOF_LINE == [eof |-> TRUE, content |-> <<>>]

EmptyGro == [lines |-> <<>>, pos |-> 0, n_atoms |-> 0]

\* gro_file.readline(): the next line and the file moved past it
readline(g) ==
    IF g.pos < Len(g.lines)
    THEN [line |-> g.lines[g.pos + 1], gro |-> [g EXCEPT !.pos = @ + 1]]
    ELSE [line |-> EOF_LINE, gro |-> g]

\* str(line.strip()) of the title line
StripText(line) == IF line.content = <<>> THEN "" ELSE line.content[1].name

\* int(line) succeeds on a line that is one run of digits
IsIntLine(line) == Len(line.content) = 1 /\ line.content[1].s = "int"

\* float(token) succeeds on a number
IsFloat(tok) == tok.s \in {"int", "float"}

\* r.match(res): digits followed by letters
ResidueMatches(tok) == tok.s = "res"

\* s[:n]
Prefix(s, n) == IF Len(s) > n THEN SubSeq(s, 1, n) ELSE s

\* Atom(name=..., position=...) with site.molecule and site.residue set
GroAtom(name, position, label) ==
    [name |-> name, charge |-> None, position |-> position, element |-> 0,
     mass |-> None, residue |-> label, molecule |-> label, atom_type |-> 0]

\* Box(lengths) of gmso.core.box: three lengths, the angles default to 90 degree
Box(lengths) ==
    [lengths |-> lengths, angles |-> VecQty(<<90, 90, 90>>, "degree")]

\* lines 52-56: the new topology, the title line and the declared count
ReadGroHeader ==
    /\ pc = "read_entry"
    /\ LET title == readline(gro)
           count == readline(title.gro)
       IN  IF ~IsIntLine(count.line)
           THEN /\ err' = Raised("ValueError", <<"invalid literal for int()">>)
                /\ pc' = "read_failed"
                /\ outT' = [EmptyTop EXCEPT !.name = StripText(title.line)]
                /\ gro' = count.gro
           ELSE /\ outT' = [EmptyTop EXCEPT !.name = StripText(title.line)]
                /\ gro' = [count.gro EXCEPT !.n_atoms = count.line.content[1].v]
                /\ pc' = "read_rows"
                /\ UNCHANGED err
    /\ UNCHANGED <<first, chained, refer_type, inS, inT, outS, maps, gmaps, warns, log, calls>>

MinOf(S) == CHOOSE m \in S : \A x \in S : m <= x

\* lines 69-84: the first statement of the loop body that fails on the
\* fields of a line: an index past the fields, a field that is no number,
\* a first field that the residue pattern does not match
RowError(content) ==
    LET bad == {j \in 1..6 : Len(content) < j \/ (j >= 4 /\ ~IsFloat(content[j]))}
    IN  IF bad # {}
        THEN IF Len(content) < MinOf(bad)
             THEN Raised("IndexError", <<"list index out of range">>)
             ELSE Raised("ValueError", <<"could not convert string to float">>)
        ELSE IF ~ResidueMatches(content[1])
        THEN Raised("AttributeError", <<"group">>)
        ELSE NoError

\* lines 57-85: one pass of the loop over the declared rows
ReadGroRow ==
    /\ pc = "read_rows"
    /\ Len(outT.sites) < gro.n_atoms
    /\ LET r == readline(gro)
           content == r.line.content
       IN  /\ gro' = r.gro
           /\ IF r.line.eof
              THEN /\ err' = Raised("ValueError",
                                    <<"Incorrect number of lines in .gro file", gro.n_atoms>>)
                   /\ pc' = "read_failed"
                   /\ UNCHANGED outT
              ELSE IF RowError(content) # NoError
              THEN /\ err' = RowError(content)
                   /\ pc' = "read_failed"
                   /\ UNCHANGED outT
              ELSE /\ outT' = [outT EXCEPT !.sites = Append(@,
                                  GroAtom(content[2].name,
                                          VecQty(<<content[4].v, content[5].v, content[6].v>>, "nm"),
                                          <<content[1].name, content[1].v - 1>>))]
                   /\ UNCHANGED <<err, pc>>
    /\ UNCHANGED <<first, chained, refer_type, inS, inT, outS, maps, gmaps, warns, log, calls>>

\* lines 86-90: update_topology and the box line
ReadGroBox ==
    /\ pc = "read_rows"
    /\ Len(outT.sites) >= gro.n_atoms
    /\ LET r == readline(gro)
           line == r.line.content
           n == IF Len(line) < 3 THEN Len(line) ELSE 3
       IN  /\ gro' = r.gro
           /\ IF \E j \in 1..n : ~IsFloat(line[j])
              THEN /\ err' = Raised("ValueError", <<"could not convert string to float">>)
                   /\ pc' = "read_failed"
                   /\ outT' = [outT EXCEPT !.is_updated = TRUE]
              ELSE IF n < 3
              THEN /\ err' = Raised("ValueError", <<"cannot reshape array">>)
                   /\ pc' = "read_failed"
                   /\ outT' = [outT EXCEPT !.is_updated = TRUE]
              ELSE /\ outT' = [outT EXCEPT
                                  !.is_updated = TRUE,
                                  !.box = Box(VecQty(<<line[1].v, line[2].v, line[3].v>>, "nm"))]
                   /\ pc' = "read_end"
                   /\ UNCHANGED err
    /\ UNCHANGED <<first, chained, refer_type, inS, inT, outS, maps, gmaps, warns, log, calls>>

\* lines 92-102: the line after the box line must be the end of the file
ReadGroEnd ==
    /\ pc = "read_end"
    /\ LET r == readline(gro)
       IN  /\ gro' = r.gro
           /\ IF ~r.line.eof
              THEN /\ err' = Raised("ValueError",
                                    <<"Incorrect number of lines in input file", gro.n_atoms>>)
                   /\ pc' = "read_failed"
              ELSE /\ pc' = "read_done"
                   /\ UNCHANGED err
    /\ UNCHANGED <<first, chained, refer_type, inS, outT, inT, outS, maps, gmaps, warns, log, calls>>

\* np.min(pos_array) < 0
HasNegative(sites) == \E i \in DOMAIN sites : \E j \in 1..3 : sites[i].position[j].v < 0

\* _validate_positions: an axis with a negative minimum is translated to start at 0
validate_positions(sites) ==
    LET minimum(j) == MinOf({sites[i].position[j].v : i \in DOMAIN sites})
    IN  [i \in DOMAIN sites |->
            [j \in 1..3 |->
                IF minimum(j) < 0
                THEN Qty(sites[i].position[j].v - minimum(j), sites[i].position[j].unit)
                ELSE sites[i].position[j]]]

\* lines 134-144: the positions, the opened file, the title and the count
WriteGroHeader ==
    /\ pc = "write_entry"
    /\ warns' = IF HasNegative(inT.sites)
                THEN Append(warns, <<"Topology contains some negative positions", "", 0>>)
                ELSE warns
    /\ gro' = [EmptyGro EXCEPT
                  !.lines = << Line(<<Tok("word", 0, inT.name \o " written by GMSO")>>),
                               Line(<<Tok("int", Len(inT.sites), "")>>) >>]
    /\ pc' = "write_atoms"
    /\ UNCHANGED <<first, chained, refer_type, inS, outT, inT, outS, maps, gmaps, err, log, calls>>

\* line 177: the residue name of a site that has a residue label but no molecule
ResidueBranchName(site) ==
    IF site.molecule = None
    THEN [err |-> Raised("AttributeError", <<"name">>), name |-> ""]
    ELSE [err |-> NoError, name |-> Prefix(site.molecule[1], 3)]

\* lines 172-180: residue id and name of a site
ResidueOfSite(site) ==
    IF site.molecule # None
    THEN [err |-> NoError, res_id |-> site.molecule[2] + 1, res_name |-> site.molecule[1]]
    ELSE IF site.residue # None
    THEN LET r == ResidueBranchName(site)
         IN  [err |-> r.err, res_id |-> site.residue[2] + 1, res_name |-> r.name]
    ELSE [err |-> NoError, res_id |-> 1, res_name |-> "MOL"]

\* crdfmt.format(pos.in_units(u.nm).value)
FormatCoord(q) == Tok("float", ToNm(q).v, "")

\* lines 181-202: the record of a site, res_id and res_name in one token
AtomRecord(idx, site, pos, res) ==
    Line(<< Tok("res", res.res_id, Prefix(res.res_name, 3)),
            Tok("word", 0, Prefix(site.name, 3)),
            Tok("int", idx, ""),
            FormatCoord(pos[1]), FormatCoord(pos[2]), FormatCoord(pos[3]) >>)

\* _prepare_atoms: the records of all sites, or the error of the first that fails
RECURSIVE prepare_atoms(_, _, _, _)
prepare_atoms(sites, updated_positions, idx, out_str) ==
    IF idx > Len(sites) THEN [err |-> NoError, out_str |-> out_str]
    ELSE LET res == ResidueOfSite(sites[idx])
         IN  IF res.err # NoError THEN [err |-> res.err, out_str |-> out_str]
             ELSE prepare_atoms(sites, updated_positions, idx + 1,
                      Append(out_str, AtomRecord(idx, sites[idx], updated_positions[idx], res)))

\* line 145: out_file.write(_prepare_atoms(top, pos_array, precision))
WriteGroAtoms ==
    /\ pc = "write_atoms"
    /\ LET r == prepare_atoms(inT.sites, validate_positions(inT.sites), 1, <<>>)
       IN  /\ warns' = Append(warns, <<"Residue information is parsed from site.molecule", "", 0>>)
           /\ IF r.err # NoError
              THEN /\ err' = r.err
                   /\ pc' = "write_failed"
                   /\ UNCHANGED gro
              ELSE /\ gro' = [gro EXCEPT !.lines = @ \o r.out_str]
                   /\ pc' = "write_box"
                   /\ UNCHANGED err
    /\ UNCHANGED <<first, chained, refer_type, inS, outT, inT, outS, maps, gmaps, log, calls>>

\* _prepare_box: three lengths for a rectangular box, else the nine
\* components of the box vectors (their values are not computed here)
prepare_box(box) ==
    IF \A j \in 1..3 : box.angles[j].v = 90
    THEN Line([j \in 1..3 |-> Tok("float", ToNm(box.lengths[j]).v, "")])
    ELSE Line([j \in 1..9 |-> Tok("float", 0, "vectors")])

\* line 146: out_file.write(_prepare_box(top))
WriteGroBox ==
    /\ pc = "write_box"
    /\ IF inT.box = None
       THEN /\ err' = Raised("AttributeError", <<"angles">>)
            /\ pc' = "write_failed"
            /\ UNCHANGED gro
       ELSE /\ gro' = [gro EXCEPT !.lines = Append(@, prepare_box(inT.box))]
            /\ pc' = "write_done"
            /\ UNCHANGED err
    /\ UNCHANGED <<first, chained, refer_type, inS, outT, inT, outS, maps, gmaps, warns, log, calls>>

\* read_gro of the file that write_gro has written
ChainReadGro ==
    /\ pc = "write_done"
    /\ ~chained
    /\ chained' = TRUE
    /\ gro' = [gro EXCEPT !.pos = 0]
    /\ pc' = "read_entry"
    /\ UNCHANGED <<first, refer_type, inS, outT, inT, outS, maps, gmaps, warns, err, log, calls>>


(***************************************************************************)
(* The inputs.  Structures for from_parmed: MaxAtoms atoms in one or two   *)
(* residues, up to two connections of each kind, MaxTypes records in each  *)
(* type table with parameter values in 1..MaxVal.                          *)
(***************************************************************************)
TypeName(v) == IF v = 1 THEN "A" ELSE IF v = 2 THEN "B" ELSE "C"

\* the values of the records of a table: a function 1..MaxTypes -> 1..MaxVal
TypeValues == {tv \in [1..MaxTypes -> 1..MaxVal] : tv[1] = 1}

TableRecord(table, v) ==
    CASE table = "bond_types" -> <<v, v + 1>>
      [] table = "angle_types" -> <<v, 100 + v>>
      [] table = "dihedral_types" -> <<v, 3, 180>>
      [] table = "rb_torsion_types" -> <<v, 0, v, 0, 0, 0>>
      [] table = "improper_types" -> <<v, 0>>

TableFor(table, tv) == [i \in DOMAIN tv |-> TableRecord(table, tv[i])]

PmdAtomTypeRecord(v) ==
    [name |-> TypeName(v), charge |-> Rat(v), sigma |-> 3 * v, epsilon |-> v,
     mass |-> 12, atomic_number |-> 6]

\* how the atoms are typed: the AtomType each atom refers to and its label
AtomLayouts ==
    { [i \in 1..MaxAtoms |-> 1],
      [i \in 1..MaxAtoms |-> ((i - 1) % MaxTypes) + 1],
      [i \in 1..MaxAtoms |-> 0],
      [i \in 1..MaxAtoms |-> IF i = 2 THEN 0 ELSE 1] }

PmdAtom(i, ref, tv) ==
    [name |-> "X", type |-> IF ref = 0 THEN "" ELSE TypeName(tv[ref]),
     atom_type |-> ref, mass |-> <<12>>, charge |-> Rat(i - 2),
     pos |-> <<10 * i, 5, 0>>, element |-> 6]

\* atoms 1..split form the first residue, the others the second
Residues(split) ==
    IF split >= MaxAtoms
    THEN << [name |-> "RA", number |-> 7, atoms |-> [i \in 1..MaxAtoms |-> i]] >>
    ELSE << [name |-> "RA", number |-> 7, atoms |-> [i \in 1..split |-> i]],
            [name |-> "RB", number |-> 9, atoms |-> [i \in 1..(MaxAtoms - split) |-> split + i]] >>

\* the types and the improper flags of the connections of a collection
ConnPatterns ==
    { [refs |-> <<>>, flags |-> <<>>] }
    \cup { [refs |-> <<r>>, flags |-> <<f>>] : r \in {0, 1}, f \in BOOLEAN }
    \cup { [refs |-> r, flags |-> f] :
             r \in {<<1, 1>>, <<1, MaxTypes>>, <<0, 1>>},
             f \in {<<FALSE, FALSE>>, <<TRUE, FALSE>>, <<TRUE, TRUE>>} }

Reverse(s) == [i \in DOMAIN s |-> s[Len(s) + 1 - i]]

Conns(members, table, refs, flags) ==
    [i \in DOMAIN refs |->
        PmdConn(members[i], IF refs[i] = 0 THEN "" ELSE table, refs[i], flags[i])]

NoFlags(refs) == [i \in DOMAIN refs |-> FALSE]

BondMembers == { <<>>, << <<1, 2>> >>, << <<2, 3>> >>, << <<1, 2>>, <<3, 4>> >>,
                 << <<1, 2>>, <<2, 3>> >>, << <<1, 2>>, <<2, 3>>, <<3, 4>> >> }

MakeStructure(tv, atoms, split, bond_members, bond_refs, p) ==
    [EmptyStructure EXCEPT
        !.title = "S",
        !.atoms = [i \in 1..MaxAtoms |-> PmdAtom(i, atoms[i], tv)],
        !.residues = Residues(split),
        !.atom_types = [i \in DOMAIN tv |-> PmdAtomTypeRecord(tv[i])],
        !.bond_types = TableFor("bond_types", tv),
        !.angle_types = TableFor("angle_types", tv),
        !.dihedral_types = TableFor("dihedral_types", tv),
        !.rb_torsion_types = TableFor("rb_torsion_types", tv),
        !.improper_types = TableFor("improper_types", tv),
        !.bonds = Conns(bond_members, "bond_types", bond_refs, NoFlags(bond_refs)),
        !.angles = Conns(<< <<1, 2, 3>>, <<2, 3, 4>> >>, "angle_types", p.refs,
                         NoFlags(p.refs)),
        !.dihedrals = Conns(<< <<3, 1, 2, 4>>, <<1, 2, 3, 4>> >>, "dihedral_types",
                            p.refs, p.flags),
        !.rb_torsions = Conns(<< <<2, 1, 3, 4>>, <<3, 1, 2, 4>> >>, "rb_torsion_types",
                              p.refs, Reverse(p.flags)),
        !.impropers = Conns(<< <<1, 2, 3, 4>>, <<2, 1, 3, 4>> >>, "improper_types",
                            p.refs, NoFlags(p.refs)),
        !.combining_rule = "geometric"]

\* structures that vary the types and the improper flags of the connections
TypedStructures ==
    { MakeStructure(tv, atoms, MaxAtoms, << <<1, 2>>, <<3, 4>> >>, p.refs, p) :
        tv \in TypeValues, atoms \in AtomLayouts, p \in {q \in ConnPatterns : Len(q.refs) = 2} }
    \cup
    { MakeStructure(tv, atoms, MaxAtoms, << <<1, 2>> >>, p.refs, p) :
        tv \in TypeValues, atoms \in AtomLayouts, p \in {q \in ConnPatterns : Len(q.refs) = 1} }
    \cup
    { MakeStructure(tv, atoms, MaxAtoms, <<>>, <<>>, p) :
        tv \in TypeValues, atoms \in AtomLayouts, p \in {q \in ConnPatterns : Len(q.refs) = 0} }

\* structures that vary the residues and the bonds between the atoms
ResidueStructures ==
    { MakeStructure([i \in 1..MaxTypes |-> 1], atoms, split, bm, [i \in DOMAIN bm |-> 1],
                    [refs |-> <<1>>, flags |-> <<FALSE>>]) :
        atoms \in AtomLayouts, split \in 1..MaxAtoms, bm \in BondMembers }

\* an object of another class with the attributes of a structure
NotAStructure ==
    [MakeStructure([i \in 1..MaxTypes |-> 1], [i \in 1..MaxAtoms |-> 1], MaxAtoms,
                   << <<1, 2>> >>, <<1>>, [refs |-> <<1>>, flags |-> <<FALSE>>])
        EXCEPT !.isStructure = FALSE]

StructureInputs == TypedStructures \cup ResidueStructures \cup {NotAStructure}


(***************************************************************************)
(* Topologies for to_parmed: MaxAtoms sites, up to two bonds, angles,      *)
(* dihedrals and impropers, MaxTypes type objects of each class.           *)
(***************************************************************************)
AtomTypeId(i) == i
BondTypeId(i) == MaxTypes + i
AngleTypeId(i) == 2 * MaxTypes + i
DihedralTypeId(i) == 3 * MaxTypes + i
ImproperTypeId(i) == 4 * MaxTypes + i

GmsoAtomType(i, expr) ==
    [cls |-> "AtomType", name |-> TypeName(i), expr |-> expr,
     params |-> <<3 * i, i>>, member_types |-> None,
     charge |-> Rat(i), mass |-> 12, element |-> <<"Z", 6>>]

\* the heap of a topology: the atom types, then bond, angle, dihedral and
\* improper types; x gives the expressions
Heap(x) ==
    [i \in 1..MaxTypes |-> GmsoAtomType(i, IF i = 1 THEN x.atom ELSE LJ_FACTORED)]
    \o [i \in 1..MaxTypes |->
          TypeObj("BondType", "BondType", x.bond, <<2 * i, i + 1>>, None)]
    \o [i \in 1..MaxTypes |->
          TypeObj("AngleType", "AngleType", x.angle, <<2 * i, 100 + i>>, None)]
    \o [i \in 1..MaxTypes |->
          IF x.dihedral[i] = RB
          THEN TypeObj("DihedralType", "DihedralType", RB, <<i, 0, i, 0, 0, 0>>, None)
          ELSE TypeObj("DihedralType", "DihedralType", x.dihedral[i], <<i, 180, 3>>, None)]
    \o [i \in 1..MaxTypes |->
          TypeObj("ImproperType", "HarmonicImproperPotential", HarmonicImproperPotential,
                  <<i, 0>>, None)]

SiteResidues ==
    { [i \in 1..MaxAtoms |-> None],
      [i \in 1..MaxAtoms |-> <<"RA", 1>>],
      [i \in 1..MaxAtoms |-> IF i <= 2 THEN <<"RA", 1>> ELSE <<"RB", 2>>],
      [i \in 1..MaxAtoms |-> IF i % 2 = 1 THEN <<"RA", 1>> ELSE <<"RB", 2>>],
      [i \in 1..MaxAtoms |-> IF i = 1 THEN None ELSE <<"RA", 5>>] }

Site(i, scale, residue, atom_type) ==
    [name |-> "X", charge |-> Rat(i - 2),
     position |-> VecQty(<<scale * i, scale, 0>>, "nm"),
     element |-> 6, mass |-> <<12>>, residue |-> residue, molecule |-> residue,
     atom_type |-> atom_type]

GmsoConns(members, refs, base) ==
    [i \in DOMAIN refs |->
        Connection(members[i], IF refs[i] = 0 THEN 0 ELSE base + refs[i])]

GmsoBox(scale) ==
    IF scale = 1 THEN None
    ELSE [lengths |-> VecQty(<<scale, scale, 2 * scale>>, "nm"),
          angles |-> VecQty(<<90, 90, 90>>, "degree")]

RefPatterns == {p.refs : p \in ConnPatterns}

\* the harmonic form stands for a dihedral expression no external form matches
DihedralExprs ==
    {x \in [1..MaxTypes -> {PERIODIC_SQUARED, PERIODIC, RB, HARMONIC_IMPROPER}] : TRUE}

MakeTopology(x, atoms, residues, scale, refs) ==
    [EmptyTop EXCEPT
        !.name = "T",
        !.box = GmsoBox(scale),
        !.sites = [i \in 1..MaxAtoms |-> Site(i, scale, residues[i], atoms[i])],
        !.bonds = GmsoConns(<< <<1, 2>>, <<3, 4>> >>, refs, BondTypeId(0)),
        !.angles = GmsoConns(<< <<1, 2, 3>>, <<2, 3, 4>> >>, refs, AngleTypeId(0)),
        !.dihedrals = GmsoConns(<< <<1, 2, 3, 4>>, <<1, 3, 2, 4>> >>, refs,
                                DihedralTypeId(0)),
        !.impropers = GmsoConns(<< <<1, 2, 3, 4>>, <<2, 1, 3, 4>> >>, refs,
                                ImproperTypeId(0)),
        !.types = Heap(x),
        !.combining_rule = "geometric",
        !.is_updated = TRUE]

DefaultExprs(dihedral) ==
    [atom |-> LJ_FACTORED, bond |-> HARMONIC_BOND, angle |-> HARMONIC_ANGLE,
     dihedral |-> dihedral]

\* topologies that vary the sites, their residues and the connections
ShapedTopologies ==
    { MakeTopology(DefaultExprs(d), atoms, residues, scale, refs) :
        d \in {x \in DihedralExprs : Range(x) \subseteq {PERIODIC_SQUARED, RB}},
        atoms \in {[i \in 1..MaxAtoms |-> 0], [i \in 1..MaxAtoms |-> 1]},
        residues \in SiteResidues, scale \in 1..MaxVal, refs \in RefPatterns }

\* topologies that vary the expressions of the types
ExpressionTopologies ==
    { MakeTopology([atom |-> a, bond |-> b, angle |-> g, dihedral |-> d],
                   atoms, [i \in 1..MaxAtoms |-> <<"RA", 1>>], 1, <<1, MaxTypes>>) :
        a \in {LJ_FACTORED, LJ_EXPANDED, LINEAR},
        b \in {HARMONIC_BOND, HARMONIC_BOND_EXPANDED},
        g \in {HARMONIC_ANGLE, HARMONIC_ANGLE_EXPANDED},
        d \in {x \in DihedralExprs : x[MaxTypes] = RB},
        atoms \in AtomLayouts }

\* an object of another class with the attributes of a topology
NotATopology ==
    [MakeTopology(DefaultExprs([i \in 1..MaxTypes |-> PERIODIC_SQUARED]),
                  [i \in 1..MaxAtoms |-> 1], [i \in 1..MaxAtoms |-> <<"RA", 1>>],
                  MaxVal, <<1, 1>>)
        EXCEPT !.isTopology = FALSE]

\* topologies whose atom types are distinct objects with the same name and
\* different parameters
SameNameTopologies ==
    { [MakeTopology(DefaultExprs([i \in 1..MaxTypes |-> PERIODIC_SQUARED]), atoms,
                    [i \in 1..MaxAtoms |-> <<"RA", 1>>], 1, refs)
          EXCEPT !.types = [i \in DOMAIN @ |->
                               IF i <= MaxTypes THEN [@[i] EXCEPT !.name = TypeName(1)]
                               ELSE @[i]]] :
        atoms \in AtomLayouts, refs \in RefPatterns }

TopologyInputs ==
    ShapedTopologies \cup ExpressionTopologies \cup SameNameTopologies \cup {NotATopology}

(***************************************************************************)
(* Inputs of read_gro and write_gro.  A file declares up to MaxAtoms rows  *)
(* and holds up to MaxAtoms rows, with or without a box line and a line    *)
(* after it; a topology for write_gro has MaxAtoms sites, each labelled    *)
(* with a molecule, with a residue only, or not at all.                    *)
(***************************************************************************)
GroRow(i) ==
    Line(<< Tok("res", i, "MOL"), Tok("word", 0, "X"), Tok("int", i, ""),
            Tok("float", i, ""), Tok("float", 2 * i, ""), Tok("float", 0, "") >>)

GroBoxLine(kind) ==
    IF kind = "rectangular"
    THEN << Line([j \in 1..3 |-> Tok("float", 2 * MaxAtoms, "")]) >>
    ELSE IF kind = "triclinic"
    THEN << Line([j \in 1..9 |-> Tok("float", IF j <= 3 THEN 2 * MaxAtoms ELSE 1, "")]) >>
    ELSE <<>>

GroExtra(kind) ==
    IF kind = "row" THEN << GroRow(MaxAtoms + 1) >>
    ELSE IF kind = "blank" THEN << Line(<<>>) >>
    ELSE <<>>

GroFile(declared, rows, box, extra) ==
    << Line(<<Tok("word", 0, "T")>>), Line(<<Tok("int", declared, "")>>) >>
    \o [i \in 1..rows |-> GroRow(i)] \o GroBoxLine(box) \o GroExtra(extra)

GroFiles ==
    { GroFile(declared, rows, box, extra) :
        declared \in 0..MaxAtoms, rows \in 0..MaxAtoms,
        box \in {"rectangular", "triclinic"}, extra \in {"none", "row", "blank"} }
    \cup { GroFile(declared, rows, "none", "none") :
             declared \in 0..MaxAtoms, rows \in 0..MaxAtoms }
    \cup { <<>> }

SiteLabels == {"molecule", "residue", "none"}

GroSite(i, kind, resname, offset) ==
    [name |-> IF i = 1 THEN "CARBON" ELSE "X", charge |-> None,
     position |-> VecQty(<<i + offset, 1, 0>>, "nm"), element |-> 0, mass |-> None,
     residue |-> IF kind = "none" THEN None ELSE <<resname, i - 1>>,
     molecule |-> IF kind = "molecule" THEN <<resname, i - 1>> ELSE None,
     atom_type |-> 0]

GroTopologies ==
    { [EmptyTop EXCEPT
          !.name = "T",
          !.box = IF boxed THEN Box(VecQty(<<2 * MaxAtoms, 2 * MaxAtoms, 2 * MaxAtoms>>, "nm"))
                  ELSE None,
          !.sites = [i \in 1..MaxAtoms |-> GroSite(i, labels[i], resname, offset)]] :
        labels \in [1..MaxAtoms -> SiteLabels], resname \in {"RA", "RESIDUE"},
        offset \in {0, -2}, boxed \in BOOLEAN }


(***************************************************************************)
(* The specification.                                                      *)
(***************************************************************************)
Init ==
    /\ refer_type \in BOOLEAN
    /\ first \in {"from", "to", "write_gro", "read_gro"}
    /\ first \in {"write_gro", "read_gro"} => refer_type = FALSE
    /\ chained = FALSE
    /\ CASE first = "from" ->
              inS \in StructureInputs /\ inT = EmptyTop /\ gro = EmptyGro /\ pc = "from_entry"
         [] first = "to" ->
              inT \in TopologyInputs /\ inS = EmptyStructure /\ gro = EmptyGro /\ pc = "to_entry"
         [] first = "write_gro" ->
              inT \in GroTopologies /\ inS = EmptyStructure /\ gro = EmptyGro
              /\ pc = "write_entry"
         [] first = "read_gro" ->
              /\ inT = EmptyTop /\ inS = EmptyStructure /\ pc = "read_entry"
              /\ gro \in {[EmptyGro EXCEPT !.lines = f] : f \in GroFiles}
    /\ outT = EmptyTop
    /\ outS = EmptyStructure
    /\ maps = EmptyMaps
    /\ gmaps = EmptyGmaps
    /\ warns = <<>>
    /\ err = NoError
    /\ log = <<>>
    /\ calls = 0

Next ==
    \/ FromEntry
    \/ FromTypes
    \/ FromSites
    \/ FromBonds
    \/ FromAngles
    \/ FromDihedrals
    \/ FromRBTorsions
    \/ FromImpropers
    \/ FromFinal
    \/ ToEntry
    \/ ToAtoms
    \/ ToClaim
    \/ ToBonds
    \/ ToAngles
    \/ ToDihedrals
    \/ ToAtomTypes
    \/ ToBondTypes
    \/ ToAngleTypes
    \/ ToDihedralTypes
    \/ ToReturn
    \/ ChainToParmed
    \/ ChainFromParmed
    \/ SetExpression
    \/ ReadGroHeader
    \/ ReadGroRow
    \/ ReadGroBox
    \/ ReadGroEnd
    \/ WriteGroHeader
    \/ WriteGroAtoms
    \/ WriteGroBox
    \/ ChainReadGro

Spec == Init /\ [][Next]_vars

TypeOK ==
    /\ pc \in {"from_entry", "from_types", "from_sites", "from_bonds", "from_angles",
               "from_dihedrals", "from_rb_torsions", "from_impropers", "from_final",
               "from_done", "from_failed",
               "to_entry", "to_atoms", "to_claim", "to_bonds", "to_angles", "to_dihedrals",
               "to_atom_types", "to_bond_types", "to_angle_types", "to_dihedral_types",
               "to_return", "to_done", "to_failed",
               "read_entry", "read_rows", "read_end", "read_done", "read_failed",
               "write_entry", "write_atoms", "write_box", "write_done", "write_failed"}
    /\ first \in {"from", "to", "write_gro", "read_gro"}
    /\ chained \in BOOLEAN
    /\ refer_type \in BOOLEAN
    /\ calls \in 0..MaxCalls + 1
    /\ err.kind \in {"none", "AssertionError", "KeyError", "AttributeError", "GMSOError",
                    "ValueError", "IndexError"}


(***************************************************************************)
(* Properties.  What relates a structure to the topology made from it:     *)
(* the atom a site was made from is the one at its position (the positions *)
(* of the inputs are pairwise distinct), and the connections of the        *)
(* topology follow the loops of from_parmed collection by collection.      *)
(***************************************************************************)
ConnAttrs == {"bonds", "angles", "dihedrals", "rb_torsions", "impropers"}

InAngstrom(position) ==
    [i \in DOMAIN position |->
        IF position[i].unit = "nm" THEN 10 * position[i].v ELSE position[i].v]

\* the site of the topology T made from atom a of the structure S
SiteOfAtom(S, T, a) ==
    CHOOSE k \in DOMAIN T.sites : InAngstrom(T.sites[k].position) = S.atoms[a].pos

SitesOf(S, T, conn) == [j \in DOMAIN conn.atoms |-> SiteOfAtom(S, T, conn.atoms[j])]

\* how many of the first n members of S.dihedrals are flagged improper
Flagged(S, n) == Len(SelectSeq(SubSeq(S.dihedrals, 1, n), LAMBDA d : d.improper))

\* the collection of T and the place in it of the connection made from S[attr][i]
PlaceOf(S, attr, i) ==
    LET nd == Len(S.dihedrals)
    IN  CASE attr = "bonds" -> [out |-> "bonds", idx |-> i]
          [] attr = "angles" -> [out |-> "angles", idx |-> i]
          [] attr = "dihedrals" ->
               IF S.dihedrals[i].improper
               THEN [out |-> "impropers", idx |-> Flagged(S, i)]
               ELSE [out |-> "dihedrals", idx |-> i - Flagged(S, i)]
          [] attr = "rb_torsions" -> [out |-> "dihedrals", idx |-> nd - Flagged(S, nd) + i]
          [] attr = "impropers" -> [out |-> "impropers", idx |-> Flagged(S, nd) + i]

InternalOf(S, T, attr, i) == T[PlaceOf(S, attr, i).out][PlaceOf(S, attr, i).idx]

\* from_parmed has returned a topology
FromDone == pc = "from_done"

\* the kind of a connection: a periodic dihedral flagged improper is an
\* improper, of another kind than the other members of structure.dihedrals
KindOf(attr, conn) ==
    IF attr = "dihedrals" /\ conn.improper THEN "improper dihedrals" ELSE attr

\* the two connections of S[attr] are of one kind and refer to one record
ShareRecord(S, attr, i, j) ==
    /\ HasTypeOf(S[attr][i], TableOf(attr))
    /\ HasTypeOf(S[attr][j], TableOf(attr))
    /\ S[attr][i].type = S[attr][j].type
    /\ KindOf(attr, S[attr][i]) = KindOf(attr, S[attr][j])

\* the entries of the type map that a lookup with the record of conn finds
EntriesFor(S, m, attr, conn) ==
    LET tgt == Target(attr, conn)
    IN  {e \in DOMAIN m[tgt.dict] :
            KeyEq(S, m[tgt.dict][e].key, TypeKey(tgt.how, tgt.table, conn.type))}

TypeDicts ==
    { [how |-> "bond", table |-> "bond_types", dict |-> "bondtypes"],
      [how |-> "angle", table |-> "angle_types", dict |-> "angletypes"],
      [how |-> "dihedral", table |-> "dihedral_types", dict |-> "dihedraltypes"],
      [how |-> "rb", table |-> "rb_torsion_types", dict |-> "dihedraltypes"],
      [how |-> "periodic_improper", table |-> "dihedral_types", dict |-> "impropertypes"],
      [how |-> "harmonic_improper", table |-> "improper_types", dict |-> "impropertypes"],
      [how |-> "atom", table |-> "atom_types", dict |-> "atomtypes"] }

\* the internal type object the map gives for record i of the table
ImageOf(S, m, d, i) == DictGet(S, m[d.dict], TypeKey(d.how, d.table, i))

Mapped(S, m, d, i) == DictHas(S, m[d.dict], TypeKey(d.how, d.table, i))

\* C2: the type map built by from_parmed is a bijection on the identity of
\* the external type records: two distinct records of one table, also with
\* equal parameter values, have two distinct internal type objects.
C2_Bijection ==
    (FromDone /\ refer_type) =>
        \A d \in TypeDicts : \A i, j \in DOMAIN inS[d.table] :
            (i # j /\ Mapped(inS, maps, d, i) /\ Mapped(inS, maps, d, j)) =>
                ImageOf(inS, maps, d, i) # ImageOf(inS, maps, d, j)

\* C2, for the maps keyed by id(record): periodic and RB torsion types
C2_BijectionById ==
    (FromDone /\ refer_type) =>
        \A d \in {x \in TypeDicts : x.how \in {"dihedral", "rb", "periodic_improper"}} :
            \A i, j \in DOMAIN inS[d.table] :
                i # j => ImageOf(inS, maps, d, i) # ImageOf(inS, maps, d, j)


(***************************************************************************)
(* Properties of the type transfer of to_parmed.                           *)
(***************************************************************************)
\* to_parmed has ended on a topology, with type transfer asked for
ToEnded == pc \in {"to_done", "to_failed"} /\ inT.isTopology /\ refer_type

\* the error classes that stand for a format incompatibility
FormatIncompatibilityErrors == {"GMSOError", "EngineIncompatibilityError"}

Last(s) == s[Len(s)]

\* the type objects of a step of the type transfer
TypesOfStep(T, step) ==
    CASE step = "atom_types" -> Range(atom_types(T))
      [] step = "bond_types" -> Range(connection_types(T, "bonds"))
      [] step = "angle_types" -> Range(connection_types(T, "angles"))
      [] step = "dihedral_types" -> Range(connection_types(T, "dihedrals"))

\* the fixed external form of the kind
FixedForm(step) ==
    CASE step = "atom_types" -> LJ_PARMED
      [] step = "bond_types" -> HARMONIC_BOND
      [] step = "angle_types" -> HARMONIC_ANGLE

\* the call ended in the step, on the expression of a type
Rejected(step) ==
    /\ pc = "to_failed"
    /\ Last(log) = step
    /\ err.kind \in {"AssertionError"} \cup FormatIncompatibilityErrors

\* some atom type of the topology has an expression that is not Lennard-Jones 12-6
NonLJ(T) ==
    \E t \in TypesOfStep(T, "atom_types") : ~AlgebraicallyEqual(T.types[t].expr, LJ_PARMED)

\* C3: to_parmed with refer_type=True on a topology with an atom type whose
\* expression is not the Lennard-Jones 12-6 form ends in the
\* format-incompatibility error and returns no structure; once the
\* expression is the Lennard-Jones form again, the atom type step of the
\* same call passes.
C3_FormatIncompatibility ==
    /\ (ToEnded /\ NonLJ(inT)) =>
           (pc = "to_failed" /\ err.kind \in FormatIncompatibilityErrors)
    /\ (ToEnded /\ calls = 2 /\ ~NonLJ(inT)
            /\ \A t \in TypesOfStep(inT, "atom_types") : inT.types[t].expr = LJ_FACTORED) =>
           ~Rejected("atom_types")

\* C3, the part that the code keeps: the call on a topology with an atom
\* type that is not Lennard-Jones ends in an error at the atom type step and
\* never returns; with the Lennard-Jones form restored the step passes.
C3_RaisesAndRecovers ==
    /\ (ToEnded /\ NonLJ(inT)) => (pc = "to_failed" /\ Last(log) = "atom_types")
    /\ (ToEnded /\ calls = 2 /\ ~NonLJ(inT)
            /\ \A t \in TypesOfStep(inT, "atom_types") : inT.types[t].expr = LJ_FACTORED) =>
           ~Rejected("atom_types")

\* C3 witness: the second call returned, after a first call on the changed
\* expression (a topology given with a non Lennard-Jones atom type, restored)
C3_Restored ==
    /\ pc = "to_done" /\ refer_type /\ calls = 2 /\ first = "to" /\ ~chained
    /\ TypesOfStep(inT, "atom_types") # {}
    /\ "atom_types" \in Range(log)

\* C4: in the type transfer of to_parmed, an atom, bond or angle step
\* rejects a type if and only if some type of its kind has an expression
\* that is not algebraically equal to the fixed external form of the kind
\* (the expanded forms are accepted).
C4_AcceptedIffAlgebraicallyEqual ==
    ToEnded =>
        \A step \in {"atom_types", "bond_types", "angle_types"} :
            (step \in Range(log) /\ (pc = "to_failed" => Last(log) = step)) =>
                (Rejected(step) <=>
                    \E t \in TypesOfStep(inT, step) :
                        ~AlgebraicallyEqual(inT.types[t].expr, FixedForm(step)))

\* C4, the direction the code keeps: no step accepts an expression that is
\* algebraically different from the fixed form
C4_NoDifferentFormAccepted ==
    ToEnded =>
        \A step \in {"atom_types", "bond_types", "angle_types"} :
            (step \in Range(log) /\ (pc = "to_failed" => Last(log) = step)) =>
                ((\E t \in TypesOfStep(inT, step) :
                     ~AlgebraicallyEqual(inT.types[t].expr, FixedForm(step)))
                 => Rejected(step))

\* the dihedral types of T whose expression is the periodic torsion form
PeriodicTypes(T) ==
    {t \in TypesOfStep(T, "dihedral_types") : AlgebraicallyEqual(T.types[t].expr, PERIODIC)}

\* C5: to_parmed with refer_type=True accepts every dihedral type whose
\* expression is the periodic torsion form k*(1+cos(n*phi-phi_eq)) and emits
\* one periodic record for it; to_parmed(from_parmed(S)) is not stopped by
\* the dihedral types of a structure.
C5_PeriodicAccepted ==
    /\ (ToEnded /\ "dihedral_types" \in Range(log)
            /\ \A t \in TypesOfStep(inT, "dihedral_types") :
                  t \in PeriodicTypes(inT) \/ AlgebraicallyEqual(inT.types[t].expr, RB)) =>
           /\ ~Rejected("dihedral_types")
           /\ pc = "to_done" => Len(outS.dihedral_types) = Cardinality(PeriodicTypes(inT))
    /\ (ToEnded /\ first = "from" /\ chained) => ~Rejected("dihedral_types")

\* C5, the round trip alone: the dihedral types that from_parmed makes are
\* accepted by to_parmed
C5_RoundTripAccepted ==
    (ToEnded /\ first = "from" /\ chained) => ~Rejected("dihedral_types")

\* C5 witness of the round trip: to_parmed(from_parmed(S)) returned with a
\* periodic dihedral type record
C5_RoundTripDone ==
    /\ pc = "to_done" /\ refer_type /\ first = "from" /\ chained
    /\ outS.dihedral_types # <<>>
    /\ \E i \in DOMAIN outS.dihedrals : outS.dihedrals[i].type # 0


(***************************************************************************)
(* Properties of the round trip from_parmed(to_parmed(T)).                 *)
(***************************************************************************)
\* from_parmed(to_parmed(inT)) has returned outT
RoundTripDone == pc = "from_done" /\ first = "to" /\ chained

\* C6: for every topology T with N sites, from_parmed(to_parmed(T)) has
\* exactly N sites, in the order of T's sites, the i-th with the position of
\* T's i-th site.
C6_SitesRoundTrip ==
    RoundTripDone =>
        /\ Len(outT.sites) = Len(inT.sites)
        /\ \A i \in DOMAIN inT.sites :
              InAngstrom(outT.sites[i].position) = InAngstrom(inT.sites[i].position)

\* C6 witness: a round trip of a topology whose sites alternate between two
\* residues and lie at pairwise different positions
C6_Witness ==
    /\ RoundTripDone
    /\ Len(inT.sites) = MaxAtoms
    /\ inT.sites[1].residue = inT.sites[3].residue
    /\ inT.sites[1].residue # inT.sites[2].residue
    /\ \A i, j \in DOMAIN inT.sites : i # j => inT.sites[i].position # inT.sites[j].position

\* the connections of the i-th members of two collections link the same sites
SameMembers(a, b) ==
    Len(a) = Len(b) /\ \A i \in DOMAIN a : a[i].members = b[i].members

\* the dihedrals of T in the order to_parmed hands them on: those that are
\* not of the RB form, then those of the RB form
RegroupedDihedrals(T) ==
    SelectSeq(T.dihedrals, LAMBDA d : ~IsRBDihedral(T, d))
    \o SelectSeq(T.dihedrals, LAMBDA d : IsRBDihedral(T, d))

\* C7 as stated: from_parmed(to_parmed(T)) has the same number of bonds,
\* angles, dihedrals and impropers as T, each linking the sites of the
\* original members in the original order.
C7_ConnectivityLossless ==
    RoundTripDone =>
        /\ SameMembers(outT.bonds, inT.bonds)
        /\ SameMembers(outT.angles, inT.angles)
        /\ SameMembers(outT.dihedrals, RegroupedDihedrals(inT))
        /\ SameMembers(outT.impropers, inT.impropers)

\* C7 amended: from_parmed(to_parmed(T)) has the bonds, angles and dihedrals
\* of T, each linking the sites of the original members in the original
\* order (the dihedrals of the RB form after the others), and no improper:
\* to_parmed hands on no improper.
C7_ConnectivityWithoutImpropers ==
    RoundTripDone =>
        /\ SameMembers(outT.bonds, inT.bonds)
        /\ SameMembers(outT.angles, inT.angles)
        /\ SameMembers(outT.dihedrals, RegroupedDihedrals(inT))
        /\ outT.impropers = <<>>
        /\ outS.impropers = <<>>

\* C7 witness: a round trip of a topology with two bonds, angles, dihedrals
\* (an RB one before a periodic one) and impropers
C7_Witness ==
    /\ RoundTripDone
    /\ Len(inT.bonds) = 2 /\ Len(inT.angles) = 2 /\ Len(inT.impropers) = 2
    /\ Len(inT.dihedrals) = 2
    /\ IsRBDihedral(inT, inT.dihedrals[1]) /\ ~IsRBDihedral(inT, inT.dihedrals[2])

(***************************************************************************)
(* Properties of the dihedral, RB torsion and residue handling of          *)
(* from_parmed.                                                            *)
(***************************************************************************)
\* the members of S[attr] that are flagged improper
FlaggedIn(S, attr) == {i \in DOMAIN S[attr] : S[attr][i].improper}

\* the counts of the Dihedrals and Impropers of T are those of the members of
\* S that become one: no other connection was made
CountsMatch(S, T) ==
    /\ Len(T.impropers) = Cardinality(FlaggedIn(S, "dihedrals")) + Len(S.impropers)
    /\ Len(T.dihedrals) =
           Len(S.dihedrals) - Cardinality(FlaggedIn(S, "dihedrals")) + Len(S.rb_torsions)

\* C8: from_parmed makes of every periodic dihedral flagged improper with
\* members [a,b,c,d] an Improper, never a Dihedral, whose members are the
\* sites of a,b,c,d in that order.
C8_ImproperOrder ==
    FromDone =>
        /\ CountsMatch(inS, outT)
        /\ \A i \in FlaggedIn(inS, "dihedrals") :
              /\ PlaceOf(inS, "dihedrals", i).out = "impropers"
              /\ InternalOf(inS, outT, "dihedrals", i).members
                     = SitesOf(inS, outT, inS.dihedrals[i])

\* C8 witness: a finished conversion of a structure whose first dihedral is
\* flagged improper and whose second is not, beside a harmonic improper
C8_Witness ==
    /\ FromDone
    /\ Len(inS.dihedrals) = 2
    /\ inS.dihedrals[1].improper /\ ~inS.dihedrals[2].improper
    /\ inS.impropers # <<>>
    /\ inS.dihedrals[1].atoms[1] # 1

\* C9: from_parmed makes of every RB torsion, flagged improper or not, a
\* Dihedral, never an Improper, that carries the RB type of its record when
\* types are transferred; each dihedral and each RB torsion flagged improper
\* is warned about exactly once, and the conversion of a structure never fails.
C9_RBTorsions ==
    /\ pc = "from_failed" => ~inS.isStructure
    /\ FromDone =>
          /\ CountsMatch(inS, outT)
          /\ \A i \in DOMAIN inS.rb_torsions :
                LET d == InternalOf(inS, outT, "rb_torsions", i)
                IN  /\ PlaceOf(inS, "rb_torsions", i).out = "dihedrals"
                    /\ d.members = SitesOf(inS, outT, inS.rb_torsions[i])
                    /\ (refer_type /\ HasTypeOf(inS.rb_torsions[i], "rb_torsion_types")) =>
                           /\ d.conn_type # 0
                           /\ outT.types[d.conn_type].cls = "DihedralType"
                           /\ outT.types[d.conn_type].expr = RB
                           /\ outT.types[d.conn_type].params
                                  = inS.rb_torsion_types[inS.rb_torsions[i].type]
          /\ \A attr \in {"dihedrals", "rb_torsions"} : \A i \in DOMAIN inS[attr] :
                Cardinality({w \in DOMAIN warns : warns[w][2] = attr /\ warns[w][3] = i})
                    = IF inS[attr][i].improper THEN 1 ELSE 0
          /\ Len(warns) = Cardinality(FlaggedIn(inS, "dihedrals"))
                              + Cardinality(FlaggedIn(inS, "rb_torsions"))

\* C9 witness: a finished conversion with an RB torsion flagged improper that
\* has a type, and a periodic dihedral flagged improper
C9_Witness ==
    /\ FromDone
    /\ refer_type
    /\ \E i \in FlaggedIn(inS, "rb_torsions") : inS.rb_torsions[i].type # 0
    /\ FlaggedIn(inS, "dihedrals") # {}
    /\ Len(warns) >= 2

\* the residue of the structure that atom a belongs to
ResidueOfAtom(S, a) == CHOOSE r \in DOMAIN S.residues : a \in Range(S.residues[r].atoms)

\* some bond of the structure joins atoms of two residues
CrossResidueBond(S) ==
    \E b \in DOMAIN S.bonds :
        ResidueOfAtom(S, S.bonds[b].atoms[1]) # ResidueOfAtom(S, S.bonds[b].atoms[2])

\* C10: if some bond of the structure joins atoms of two different residues,
\* then after from_parmed no site has a molecule label and every site has
\* the residue label (residue name, residue index) of the residue of its atom.
C10_CrossResidueBond ==
    (FromDone /\ CrossResidueBond(inS)) =>
        /\ Len(outT.sites) = Len(inS.atoms)
        /\ \A a \in DOMAIN inS.atoms :
              LET site == outT.sites[SiteOfAtom(inS, outT, a)]
                  r == ResidueOfAtom(inS, a)
              IN  /\ site.molecule = None
                  /\ site.residue = <<inS.residues[r].name, r - 1>>

\* C10 witness: a finished conversion of a structure with two residues, a
\* bond inside the first one and a bond from the first to the second
C10_Witness ==
    /\ FromDone
    /\ Len(inS.residues) = 2
    /\ CrossResidueBond(inS)
    /\ \E b \in DOMAIN inS.bonds :
          ResidueOfAtom(inS, inS.bonds[b].atoms[1]) = ResidueOfAtom(inS, inS.bonds[b].atoms[2])

(***************************************************************************)
(* C11: molecule labels of a structure without a bond between residues.    *)
(***************************************************************************)
\* C11: if no bond of the structure joins atoms of two different residues,
\* then after from_parmed every site has the molecule label (residue name,
\* residue index) of its residue, whatever the bonds inside the residues,
\* also when a residue has bonded atoms and an atom without any bond.
C11_MoleculeLabels ==
    (FromDone /\ ~CrossResidueBond(inS)) =>
        /\ Len(outT.sites) = Len(inS.atoms)
        /\ \A a \in DOMAIN inS.atoms :
              LET site == outT.sites[SiteOfAtom(inS, outT, a)]
                  r == ResidueOfAtom(inS, a)
              IN  site.molecule = <<inS.residues[r].name, r - 1>>

(***************************************************************************)
(* C12: round trip of the box.                                             *)
(***************************************************************************)
\* the six-component external box [10*L, A] of a box with lengths L nm, angles A
ExternalBox(box) ==
    [i \in 1..3 |-> 10 * box.lengths[i].v] \o [i \in 1..3 |-> box.angles[i].v]

ToParmedDone == pc = "to_done" /\ first = "to" /\ ~chained

C12_WitnessNoBox == RoundTripDone /\ inT.box = None /\ outT.box = None

(***************************************************************************)
(* C13: the failures of to_parmed(top, refer_type=True).                   *)
(***************************************************************************)
\* the documented error kinds: type mismatch, incompatible unit, format
\* incompatibility
DocumentedErrors ==
    {"TypeMismatchError", "IncompatibleUnitError"} \cup FormatIncompatibilityErrors

\* C13: to_parmed(top, refer_type=True) on any topology, also one in which
\* some sites, bonds, angles or dihedrals carry a type and others of the same
\* kind carry none, returns a structure or ends in a documented error kind,
\* never in another failure such as a failed lookup.  The failed assertion on
\* the expression of a type is counted with the format incompatibility here.
C13_TotalButDocumented ==
    (ToEnded /\ pc = "to_failed") =>
        err.kind \in DocumentedErrors \cup {"AssertionError"}

(***************************************************************************)
(* C14: the argument checks at the entry of the two converters.            *)
(***************************************************************************)
\* C14: from_parmed called with an object that is not a structure, and
\* to_parmed called with an object that is not a topology, fail at entry: the
\* error is raised before any topology, structure, map, site, atom or
\* connection has been created or modified.
C14_FailAtEntry ==
    /\ (first = "from" /\ ~inS.isStructure /\ pc # "from_entry") =>
          /\ pc = "from_failed"
          /\ err.kind # "none"
          /\ outT = EmptyTop
          /\ maps = EmptyMaps
          /\ warns = <<>>
          /\ inS = NotAStructure
    /\ (first = "to" /\ ~inT.isTopology /\ pc # "to_entry") =>
          /\ pc = "to_failed"
          /\ err.kind # "none"
          /\ outS = EmptyStructure
          /\ gmaps = EmptyGmaps
          /\ log = <<>>
          /\ inT = NotATopology

\* C14 witness: from_parmed has failed on an object that is not a structure
\* but has a title, atoms and bonds as a structure has
C14_Witness ==
    /\ pc = "from_failed"
    /\ ~inS.isStructure
    /\ inS.title # ""
    /\ Len(inS.atoms) > 0
    /\ Len(inS.bonds) > 0

\* C14 witness of to_parmed: the call has failed on an object that is not a
\* topology but has a name, sites and bonds as a topology has
C14_WitnessTopology ==
    /\ pc = "to_failed"
    /\ ~inT.isTopology
    /\ inT.name # ""
    /\ Len(inT.sites) > 0
    /\ Len(inT.bonds) > 0

(***************************************************************************)
(* C15: the error of a type-transfer step on an unsupported expression.    *)
(***************************************************************************)
\* the forms a step of the type transfer has an external form for
SupportedForms(step) ==
    CASE step = "atom_types" -> {LJ_PARMED}
      [] step = "bond_types" -> {HARMONIC_BOND}
      [] step = "angle_types" -> {HARMONIC_ANGLE}
      [] step = "dihedral_types" -> {PERIODIC, PERIODIC_SQUARED, RB}

\* the types of the step whose expression matches no supported external form
Unsupported(T, step) ==
    {t \in TypesOfStep(T, step) :
        \A form \in SupportedForms(step) : ~AlgebraicallyEqual(T.types[t].expr, form)}

\* C15: in every type-transfer step of to_parmed (atom, bond, angle and
\* dihedral types), the error raised for a type whose expression matches no
\* supported external form is the format-incompatibility error and its
\* message names the offending type.
C15_ErrorNamesType ==
    \A step \in {"atom_types", "bond_types", "angle_types", "dihedral_types"} :
        (ToEnded /\ Rejected(step) /\ Unsupported(inT, step) # {}) =>
            /\ err.kind \in FormatIncompatibilityErrors
            /\ \E t \in Unsupported(inT, step) : inT.types[t].name \in Range(err.msg)

\* C15, the message alone, whatever the class of the error
C15_MessageNamesType ==
    \A step \in {"atom_types", "bond_types", "angle_types", "dihedral_types"} :
        (ToEnded /\ Rejected(step) /\ Unsupported(inT, step) # {}) =>
            \E t \in Unsupported(inT, step) : inT.types[t].name \in Range(err.msg)

\* C15, the class alone, whatever the message
C15_FormatIncompatibilityClass ==
    \A step \in {"atom_types", "bond_types", "angle_types", "dihedral_types"} :
        (ToEnded /\ Rejected(step) /\ Unsupported(inT, step) # {}) =>
            err.kind \in FormatIncompatibilityErrors

(***************************************************************************)
(* C16: refer_type=False.                                                  *)
(***************************************************************************)
PmdTypeTables ==
    {"atom_types", "bond_types", "angle_types", "dihedral_types", "rb_torsion_types",
     "improper_types"}

\* no site of T has an atom type and no connection of T has a connection type
NoTypesInTopology(T) ==
    /\ \A i \in DOMAIN T.sites : T.sites[i].atom_type = 0
    /\ \A attr \in {"bonds", "angles", "dihedrals", "impropers"} :
          \A i \in DOMAIN T[attr] : T[attr][i].conn_type = 0

\* the type tables of S are empty and no atom or connection of S has a type
NoTypesInStructure(S) ==
    /\ \A table \in PmdTypeTables : S[table] = <<>>
    /\ \A i \in DOMAIN S.atoms : S.atoms[i].type = "" /\ S.atoms[i].atom_type = 0
    /\ \A attr \in ConnAttrs : \A i \in DOMAIN S[attr] : S[attr][i].type = 0

\* C16: with refer_type=False no type information is transferred in either
\* direction: from_parmed returns a topology in which no site has an atom
\* type and no connection has a connection type, and to_parmed returns a
\* structure whose type tables are empty and whose atoms and connections have
\* no type, and it never raises the format-incompatibility error, whatever
\* the expressions of the topology's types.
C16_NoTypesTransferred ==
    ~refer_type =>
        /\ FromDone => NoTypesInTopology(outT)
        /\ (inT.isTopology /\ pc = "to_failed") =>
              err.kind \notin {"AssertionError"} \cup FormatIncompatibilityErrors
        /\ (inT.isTopology /\ pc \in {"to_return", "to_done", "to_failed"}) =>
              /\ pc # "to_failed"
              /\ NoTypesInStructure(outS)

\* C16 witness: to_parmed with refer_type=False has returned for a topology
\* with typed sites and bonds and an atom type whose expression is not the
\* Lennard-Jones form
C16_Witness ==
    /\ ~refer_type
    /\ pc = "to_done" /\ first = "to"
    /\ NonLJ(inT)
    /\ \E i \in DOMAIN inT.bonds : inT.bonds[i].conn_type # 0
    /\ Len(outS.atoms) = Len(inT.sites)

\* C16 witness of from_parmed: the call with refer_type=False has returned
\* for a structure with typed atoms and typed bonds
C16_WitnessFromParmed ==
    /\ ~refer_type
    /\ FromDone /\ first = "from"
    /\ \E i \in DOMAIN inS.atoms : inS.atoms[i].atom_type # 0
    /\ \E i \in DOMAIN inS.bonds : inS.bonds[i].type # 0
    /\ Len(outT.bonds) = Len(inS.bonds)

(***************************************************************************)
(* C17: round trip to_parmed(from_parmed(S)) of the harmonic parameters.   *)
(***************************************************************************)
StructureRoundTripDone == pc = "to_done" /\ first = "from" /\ chained /\ refer_type

\* the records of the table of R correspond one to one to those of S, with
\* the same values, and every member of attr refers to the corresponding one
RecordsCorrespond(S, R, attr, table) ==
    /\ Len(R[table]) = Len(S[table])
    /\ Len(R[attr]) = Len(S[attr])
    /\ \E f \in [DOMAIN S[table] -> DOMAIN R[table]] :
          /\ \A i, j \in DOMAIN S[table] : i # j => f[i] # f[j]
          /\ \A i \in DOMAIN S[table] : R[table][f[i]] = S[table][i]
          /\ \A b \in DOMAIN S[attr] :
                IF S[attr][b].type = 0 THEN R[attr][b].type = 0
                ELSE R[attr][b].type = f[S[attr][b].type]

\* C17: for every structure S with bond types (k, req) and angle types
\* (k, theteq), to_parmed(from_parmed(S)) has one bond type and one angle type
\* per original record with the same k and the same equilibrium value, and
\* each bond and angle references the record corresponding to its original.
C17_HarmonicRoundTrip ==
    StructureRoundTripDone =>
        /\ RecordsCorrespond(inS, outS, "bonds", "bond_types")
        /\ RecordsCorrespond(inS, outS, "angles", "angle_types")

\* every record of the table is referred to and no two records are equal
AllUsedAndDistinct(S, attr, table) ==
    /\ \A i \in DOMAIN S[table] : \E b \in DOMAIN S[attr] : S[attr][b].type = i
    /\ \A i, j \in DOMAIN S[table] : i # j => S[table][i] # S[table][j]

\* C17 for the structures whose records are pairwise different and all in
\* use: the values and the references come back
C17_UsedDistinctRecords ==
    StructureRoundTripDone =>
        /\ AllUsedAndDistinct(inS, "bonds", "bond_types") =>
              RecordsCorrespond(inS, outS, "bonds", "bond_types")
        /\ AllUsedAndDistinct(inS, "angles", "angle_types") =>
              RecordsCorrespond(inS, outS, "angles", "angle_types")

\* a round trip of a structure with two different bond type records in use
C17_UsedDistinctReached ==
    /\ StructureRoundTripDone
    /\ AllUsedAndDistinct(inS, "bonds", "bond_types")
    /\ Len(inS.bond_types) >= 2

\* C17 without the records that no bond or angle refers to: the records in
\* use come back, also when two of them are equal
C17_UsedRecords ==
    StructureRoundTripDone =>
        /\ (\A i \in DOMAIN inS.bond_types :
               \E b \in DOMAIN inS.bonds : inS.bonds[b].type = i) =>
              RecordsCorrespond(inS, outS, "bonds", "bond_types")
        /\ (\A i \in DOMAIN inS.angle_types :
               \E b \in DOMAIN inS.angles : inS.angles[b].type = i) =>
              RecordsCorrespond(inS, outS, "angles", "angle_types")

(***************************************************************************)
(* C18: the residue information write_gro writes.                          *)
(***************************************************************************)
\* write_gro is past the atom records, or has failed
WriteGroPastAtoms == first = "write_gro" /\ pc \in {"write_box", "write_done", "write_failed"}

\* the site has a residue label and no molecule label
ResidueOnly(site) == site.molecule = None /\ site.residue # None

\* C18: write_gro takes the residue information from site.molecule, or from
\* site.residue if site.molecule does not exist: for a site with a residue
\* label and no molecule label the written record has residue id = residue
\* number + 1 and a residue name of at most 3 characters derived from the
\* residue label, and the write completes without error.
C18_ResidueFallback ==
    (WriteGroPastAtoms /\ inT.box # None
        /\ \E i \in DOMAIN inT.sites : ResidueOnly(inT.sites[i])) =>
        /\ pc # "write_failed"
        /\ Len(gro.lines) >= 2 + Len(inT.sites)
        /\ \A i \in DOMAIN inT.sites :
              ResidueOnly(inT.sites[i]) =>
                  LET res == gro.lines[2 + i].content[1]
                  IN  /\ res.v = inT.sites[i].residue[2] + 1
                      /\ res.name = Prefix(inT.sites[i].residue[1], 3)

\* C18 for the sites with a molecule label and the sites without any label:
\* the record has the molecule number + 1 and the first 3 characters of the
\* molecule name, or residue id 1 and the name MOL, and the write completes
C18_MoleculeOrDefault ==
    (WriteGroPastAtoms /\ inT.box # None
        /\ \A i \in DOMAIN inT.sites : ~ResidueOnly(inT.sites[i])) =>
        /\ pc # "write_failed"
        /\ \A i \in DOMAIN inT.sites :
              LET res == gro.lines[2 + i].content[1]
                  site == inT.sites[i]
              IN  IF site.molecule # None
                  THEN res.v = site.molecule[2] + 1 /\ res.name = Prefix(site.molecule[1], 3)
                  ELSE res.v = 1 /\ res.name = "MOL"

\* a write of sites with and without a molecule label has completed
C18_MoleculeOrDefaultReached ==
    /\ first = "write_gro" /\ pc = "write_done"
    /\ \E i \in DOMAIN inT.sites : inT.sites[i].molecule = None
    /\ \E i \in DOMAIN inT.sites :
          inT.sites[i].molecule # None /\ Len(inT.sites[i].molecule[1]) > 3

(***************************************************************************)
(* C19: read_gro and the declared number of rows.                          *)
(***************************************************************************)
IsRow(line) == Len(line.content) = 6 /\ line.content[1].s = "res"

IsBoxLine(line) ==
    /\ Len(line.content) \in {3, 9}
    /\ \A j \in DOMAIN line.content : line.content[j].s = "float"

\* the atom rows of the file (those before the box line), the count its
\* second line declares
RowCount(lines) ==
    Cardinality({i \in 3..Len(lines) :
                    IsRow(lines[i]) /\ \A j \in 3..(i - 1) : ~IsBoxLine(lines[j])})

Declared(lines) == lines[2].content[1].v

HasBoxLine(lines) == \E i \in DOMAIN lines : IsBoxLine(lines[i])

ExtraAfterBox(lines) == \E i \in DOMAIN lines : IsBoxLine(lines[i]) /\ i < Len(lines)

\* read_gro has ended on a file that has its title and count lines
ReadGroEnded ==
    first = "read_gro" /\ pc \in {"read_done", "read_failed"} /\ Len(gro.lines) >= 2

\* the topology has one site per declared row, in the order of the file
SitesInFileOrder(T, lines) ==
    /\ Len(T.sites) = Declared(lines)
    /\ \A i \in DOMAIN T.sites :
          LET content == lines[2 + i].content
          IN  /\ T.sites[i].name = content[2].name
              /\ T.sites[i].residue = <<content[1].name, content[1].v - 1>>
              /\ VecValues(T.sites[i].position) = <<content[4].v, content[5].v, content[6].v>>

\* C19: read_gro raises ValueError whenever the number of atom rows in the
\* file differs from the count declared on the second line, both when a row
\* is missing (also when the box line is present) and when an extra line
\* follows the box line; when the counts agree it returns a topology with
\* exactly that many sites, in file order.
C19_RowCount ==
    ReadGroEnded =>
        /\ (RowCount(gro.lines) # Declared(gro.lines) \/ ExtraAfterBox(gro.lines)) =>
              (pc = "read_failed" /\ err.kind = "ValueError")
        /\ (RowCount(gro.lines) = Declared(gro.lines) /\ HasBoxLine(gro.lines)
                /\ ~ExtraAfterBox(gro.lines)) =>
              (pc = "read_done" /\ SitesInFileOrder(outT, gro.lines))

\* C19 without the files that lack a row and have a box line
C19_RowCountWithoutBoxAsRow ==
    (ReadGroEnded
        /\ ~(RowCount(gro.lines) < Declared(gro.lines) /\ HasBoxLine(gro.lines))) =>
        /\ (RowCount(gro.lines) # Declared(gro.lines) \/ ExtraAfterBox(gro.lines)) =>
              (pc = "read_failed" /\ err.kind = "ValueError")
        /\ (RowCount(gro.lines) = Declared(gro.lines) /\ HasBoxLine(gro.lines)
                /\ ~ExtraAfterBox(gro.lines)) =>
              (pc = "read_done" /\ SitesInFileOrder(outT, gro.lines))

\* read_gro has returned a topology of several sites
C19_ReadDone ==
    first = "read_gro" /\ pc = "read_done" /\ Len(outT.sites) >= 2

\* read_gro has reported a missing row of a file without a box line
C19_MissingRowReported ==
    /\ ReadGroEnded /\ pc = "read_failed" /\ err.kind = "ValueError"
    /\ RowCount(gro.lines) < Declared(gro.lines)
    /\ RowCount(gro.lines) >= 1

(***************************************************************************)
(* C20: _get_types_map keeps the first tuple of a key.                     *)
(***************************************************************************)
\* the maps that are results of _get_types_map, with the collection they index
MemberMaps ==
    { [map |-> "bond_types_map", attr |-> "bonds"],
      [map |-> "angle_types_map", attr |-> "angles"] }

\* the type identity key of the i-th member of S[attr]
KeyOfMember(S, attr, i) == IdOfType(S[attr][i].type_table, S[attr][i].type)

\* the members of S[attr] that bear the key, in collection order
Bearers(S, attr, key) == {i \in DOMAIN S[attr] : KeyOfMember(S, attr, i) = key}

\* the bearers whose member labels are all present
FullBearers(S, attr, key) ==
    {i \in Bearers(S, attr, key) : AllLabels(MemberLabels(S, S[attr][i]))}

TypesMapsBuilt == FromDone /\ first = "from" /\ refer_type

Resolved(tuple) == \A j \in DOMAIN tuple : tuple[j] # "" /\ tuple[j] # "None"

\* the tables whose internal types take their member types from a map of
\* _get_types_map alone, with the collection and the map
MemberTables ==
    { [table |-> "bond_types", attr |-> "bonds", map |-> "bond_types_map"],
      [table |-> "angle_types", attr |-> "angles", map |-> "angle_types_map"] }

\* the internal types are made in the order atom types, bond types, angle
\* types, dihedral types, RB types, periodic improper types, harmonic
\* improper types: the place of the type of record i of the table
HeapIndex(S, T, table, i) ==
    LET after == 2 * Len(S.dihedral_types) + Len(S.rb_torsion_types) + Len(S.improper_types)
    IN  IF table = "angle_types" THEN Len(T.types) - after - Len(S.angle_types) + i
        ELSE Len(T.types) - after - Len(S.angle_types) - Len(S.bond_types) + i

\* C21: no member-type tuple recorded by _get_types_map has an empty or
\* missing label: an instance with an unresolved member label never creates
\* an entry, and an internal type whose key has no entry has member_types =
\* None, not a partial tuple.
C21_NoPartialTuple ==
    TypesMapsBuilt =>
        /\ \A name \in {"bond_types_map", "angle_types_map", "dihedral_types_map",
                        "improper_types_map"} :
              \A e \in DOMAIN maps[name] :
                  maps[name][e].key[1] = "id" => Resolved(maps[name][e].val)
        /\ \A m \in MemberTables :
              /\ \A e \in DOMAIN maps[m.map] :
                    \E i \in Bearers(inS, m.attr, maps[m.map][e].key) :
                        /\ Resolved(MemberLabels(inS, inS[m.attr][i]))
                        /\ maps[m.map][e].val = MemberLabels(inS, inS[m.attr][i])
              /\ \A i \in DOMAIN inS[m.table] :
                    LET type == outT.types[HeapIndex(inS, outT, m.table, i)]
                    IN  IF DictHas(inS, maps[m.map], IdKey(m.table, i))
                        THEN type.member_types = DictGet(inS, maps[m.map], IdKey(m.table, i))
                        ELSE type.member_types = None
        /\ \A t \in DOMAIN outT.types :
              outT.types[t].member_types = None \/ Resolved(outT.types[t].member_types)

\* C21 witness: a typed bond has an atom without a type label, its key has no
\* entry and the internal bond type of its record has member_types = None
C21_Witness ==
    /\ TypesMapsBuilt
    /\ \E b \in DOMAIN inS.bonds :
          /\ inS.bonds[b].type # 0
          /\ ~Resolved(MemberLabels(inS, inS.bonds[b]))
          /\ ~DictHas(inS, maps.bond_types_map, KeyOfMember(inS, "bonds", b))
          /\ outT.types[HeapIndex(inS, outT, "bond_types", inS.bonds[b].type)].cls = "BondType"
          /\ outT.types[HeapIndex(inS, outT, "bond_types", inS.bonds[b].type)].member_types = None

(***************************************************************************)
(* C22: the order of the steps of to_parmed.  log holds the steps the      *)
(* running (or last) call of to_parmed has executed, in order.             *)
(***************************************************************************)
\* the steps of lines 530-607 in the order of the source
ToParmedSteps ==
    <<"atoms", "residues.claim", "bonds", "angles", "dihedrals",
      "atom_types", "bond_types", "angle_types", "dihedral_types">>

StepIndex(name) == CHOOSE i \in DOMAIN ToParmedSteps : ToParmedSteps[i] = name

\* the build steps a call has completed when it stands at a position
BuildStepsAt(position) ==
    CASE position = "to_entry" -> 0
      [] position = "to_atoms" -> 0
      [] position = "to_claim" -> 1
      [] position = "to_bonds" -> 2
      [] position = "to_angles" -> 3
      [] position = "to_dihedrals" -> 4
      [] OTHER -> 5

InToParmed ==
    pc \in {"to_atoms", "to_claim", "to_bonds", "to_angles", "to_dihedrals", "to_atom_types",
            "to_bond_types", "to_angle_types", "to_dihedral_types", "to_return", "to_done",
            "to_failed"}

Logged(name) == \E i \in DOMAIN log : log[i] = name

NoConnectionAppended ==
    outS.bonds = <<>> /\ outS.angles = <<>> /\ outS.dihedrals = <<>> /\ outS.rb_torsions = <<>>

AllConnectionsAppended ==
    /\ Len(outS.bonds) = Len(inT.bonds)
    /\ Len(outS.angles) = Len(inT.angles)
    /\ Len(outS.dihedrals) + Len(outS.rb_torsions) = Len(inT.dihedrals)

\* C22: in to_parmed every step runs at most once and in the order of
\* ToParmedSteps; the residue list is claimed exactly once, after the atom of
\* every site has been added and while no bond, angle or dihedral has been
\* appended; a type-transfer step has run only with refer_type, after all
\* connections have been appended, and only if the topology has a type of its
\* kind.
C22_StepOrder ==
    InToParmed =>
        /\ \A i \in DOMAIN log : \E s \in DOMAIN ToParmedSteps : log[i] = ToParmedSteps[s]
        /\ \A i, j \in DOMAIN log : i < j => StepIndex(log[i]) < StepIndex(log[j])
        /\ pc # "to_failed" =>
               /\ Len(log) >= BuildStepsAt(pc)
               /\ \A i \in 1..BuildStepsAt(pc) : log[i] = ToParmedSteps[i]
               /\ BuildStepsAt(pc) < 5 => Len(log) = BuildStepsAt(pc)
        /\ pc = "to_failed" /\ log # <<>> =>
               /\ Len(log) > 5
               /\ \A i \in 1..5 : log[i] = ToParmedSteps[i]
        /\ IF Logged("residues.claim")
           THEN /\ Len(outS.atoms) = Len(inT.sites)
                /\ Len(SelectSeq(outS.claimed, LAMBDA c : c = "residues")) = 1
           ELSE /\ NoConnectionAppended
                /\ SelectSeq(outS.claimed, LAMBDA c : c = "residues") = <<>>
        /\ BuildStepsAt(pc) = 5 /\ (pc = "to_failed" => log # <<>>) => Logged("residues.claim")
        /\ \A i \in DOMAIN log :
               StepIndex(log[i]) > 5 =>
                   /\ refer_type
                   /\ AllConnectionsAppended
                   /\ TypesOfStep(inT, log[i]) # {}
                   /\ i > 5

\* a call that has run all four type-transfer steps on a topology with bonds,
\* angles and dihedrals
C22_Witness ==
    /\ pc = "to_done"
    /\ log = ToParmedSteps
    /\ inT.bonds # <<>> /\ inT.angles # <<>> /\ inT.dihedrals # <<>>
    /\ Len(inT.sites) > 1

\* a call that skipped a type-transfer step because the topology has no type
\* of that kind
C22_WitnessSkipped ==
    /\ pc = "to_done"
    /\ refer_type
    /\ Logged("atom_types")
    /\ ~Logged("bond_types")
    /\ Logged("dihedral_types")

(***************************************************************************)
(* C23: the claim of the type collections after the type transfer of       *)
(* to_parmed.  outS.claimed holds the collections whose claim() has been   *)
(* called, one entry a call.                                               *)
(***************************************************************************)
ClaimedTypeTables == {"bond_types", "angle_types", "dihedral_types", "rb_torsion_types"}

ClaimsOf(S, table) == Len(SelectSeq(S.claimed, LAMBDA c : c = table))

\* to_parmed has returned a structure after its type transfer
TypeTransferDone == pc = "to_done" /\ refer_type

\* C23: after to_parmed with type transfer every type collection of the
\* structure that received a record (bond_types, angle_types, dihedral_types,
\* rb_torsion_types) has been claimed exactly once.
C23_ClaimedOnce ==
    TypeTransferDone =>
        \A table \in ClaimedTypeTables : outS[table] # <<>> => ClaimsOf(outS, table) = 1

\* the same for the three collections other than rb_torsion_types
C23_ClaimedOnceButRB ==
    TypeTransferDone =>
        \A table \in ClaimedTypeTables \ {"rb_torsion_types"} :
            outS[table] # <<>> => ClaimsOf(outS, table) = 1

\* a structure with RB torsion types whose list of RB torsions has been
\* claimed and whose collection of RB torsion types has not
C23_RBTypesUnclaimed ==
    /\ TypeTransferDone
    /\ outS.rb_torsion_types # <<>>
    /\ ClaimsOf(outS, "rb_torsion_types") = 0
    /\ ClaimsOf(outS, "rb_torsions") = 1

(***************************************************************************)
(* C24: the external atom type of each atom after the type transfer of     *)
(* to_parmed.                                                              *)
(***************************************************************************)
\* to_parmed has returned with the atom types transferred
AtomTypesTransferred == pc = "to_done" /\ refer_type /\ Logged("atom_types")

\* two sites of the topology have distinct atom types of one name and
\* different parameters
SameNameAtomTypes(T) ==
    \E i, j \in DOMAIN T.sites :
        /\ T.sites[i].atom_type # 0 /\ T.sites[j].atom_type # 0
        /\ T.sites[i].atom_type # T.sites[j].atom_type
        /\ T.types[T.sites[i].atom_type].name = T.types[T.sites[j].atom_type].name
        /\ T.types[T.sites[i].atom_type].params # T.types[T.sites[j].atom_type].params

\* the atom of site i has the record built from the atom type of site i
OwnAtomType(T, S, i) ==
    /\ S.atoms[i].atom_type \in DOMAIN S.atom_types
    /\ LET record == S.atom_types[S.atoms[i].atom_type]
           own == T.types[T.sites[i].atom_type]
       IN  /\ record.name = own.name
           /\ record.sigma = own.params[1]
           /\ record.epsilon = own.params[2]
           /\ record.mass = own.mass

\* C24: after the type transfer of to_parmed every external atom has the
\* record built from the atom type of its own site, also when two distinct
\* atom types of the topology have the same name and different parameters.
C24_OwnAtomType ==
    AtomTypesTransferred => \A i \in DOMAIN inT.sites : OwnAtomType(inT, outS, i)

\* the same for the topologies whose atom types have distinct names
C24_OwnAtomTypeDistinctNames ==
    AtomTypesTransferred /\ ~SameNameAtomTypes(inT) =>
        \A i \in DOMAIN inT.sites : OwnAtomType(inT, outS, i)

\* an atom whose record carries the parameters of the atom type of another
\* site, which has the same name
C24_WrongRecord ==
    /\ AtomTypesTransferred
    /\ SameNameAtomTypes(inT)
    /\ \E i \in DOMAIN inT.sites : ~OwnAtomType(inT, outS, i)

(***************************************************************************)
(* C25: the two collections of dihedrals of the structure of to_parmed.    *)
(***************************************************************************)
\* the dihedral has a type and the expression of the type is the RB form
HasRBType(T, d) == d.conn_type # 0 /\ ExprEq(T.types[d.conn_type].expr, RB)

ConnMembers(conns) == [i \in DOMAIN conns |-> conns[i].members]

AtomsOf(conns) == [i \in DOMAIN conns |-> conns[i].atoms]

\* to_parmed has appended the dihedrals
DihedralsAppended == InToParmed /\ Logged("dihedrals")

\* C25: to_parmed places every dihedral of the topology in exactly one of
\* rb_torsions and dihedrals: in rb_torsions if it has a type whose expression
\* is the Ryckaert-Bellemans form, else in dihedrals; the sizes of the two
\* sum to the number of dihedrals of the topology; after the type transfer
\* every entry of rb_torsions references a record of rb_torsion_types and
\* every typed entry of dihedrals a record of dihedral_types.
C25_DihedralPlacement ==
    /\ DihedralsAppended =>
           /\ AtomsOf(outS.rb_torsions)
                  = ConnMembers(SelectSeq(inT.dihedrals, LAMBDA d : HasRBType(inT, d)))
           /\ AtomsOf(outS.dihedrals)
                  = ConnMembers(SelectSeq(inT.dihedrals, LAMBDA d : ~HasRBType(inT, d)))
           /\ Len(outS.dihedrals) + Len(outS.rb_torsions) = Len(inT.dihedrals)
    /\ pc = "to_done" /\ Logged("dihedral_types") =>
           /\ \A i \in DOMAIN outS.rb_torsions :
                  /\ outS.rb_torsions[i].type_table = "rb_torsion_types"
                  /\ outS.rb_torsions[i].type \in DOMAIN outS.rb_torsion_types
           /\ \A i \in DOMAIN outS.dihedrals :
                  outS.dihedrals[i].type # 0 =>
                      /\ outS.dihedrals[i].type_table = "dihedral_types"
                      /\ outS.dihedrals[i].type \in DOMAIN outS.dihedral_types

\* a structure with an RB torsion and a dihedral, both typed by the transfer
C25_Witness ==
    /\ pc = "to_done"
    /\ Logged("dihedral_types")
    /\ outS.rb_torsions # <<>>
    /\ outS.dihedrals # <<>>
    /\ outS.dihedrals[1].type # 0

\* a structure with an untyped dihedral, placed in dihedrals
C25_WitnessUntyped ==
    /\ pc = "to_done"
    /\ \E i \in DOMAIN inT.dihedrals : inT.dihedrals[i].conn_type = 0
    /\ Len(outS.dihedrals) = Len(inT.dihedrals)
    /\ outS.dihedrals # <<>>

(***************************************************************************)
(* C26: the charge of the atom types through to_parmed(from_parmed(S)).    *)
(***************************************************************************)
\* equality of two rationals <<numerator, denominator>>
RatEqual(a, b) == a[1] * b[2] = b[1] * a[2]

\* to_parmed(from_parmed(S)) has returned with the atom types transferred
AtomTypeRoundTripDone == StructureRoundTripDone /\ Logged("atom_types")

\* the atom type records of S that an atom of S refers to
UsedAtomTypes(S) ==
    {S.atom_types[S.atoms[i].atom_type] : i \in {j \in DOMAIN S.atoms : S.atoms[j].atom_type # 0}}

\* C26: the atom types of to_parmed(from_parmed(S)) have the charge q (in
\* elementary charges) of the atom types of S: every emitted record has the
\* name and the charge of an atom type in use in S, and every atom type in
\* use in S has an emitted record of its name and charge.
C26_ChargeExact ==
    AtomTypeRoundTripDone =>
        /\ \A r \in Range(outS.atom_types) :
              \E s \in UsedAtomTypes(inS) : s.name = r.name /\ RatEqual(r.charge, s.charge)
        /\ \A s \in UsedAtomTypes(inS) :
              \E r \in Range(outS.atom_types) : s.name = r.name /\ RatEqual(r.charge, s.charge)

\* what the code computes: q times 1.602e-19 / 1.6e-19
C26_ChargeScaled ==
    AtomTypeRoundTripDone =>
        \A r \in Range(outS.atom_types) :
            \E s \in UsedAtomTypes(inS) :
                /\ s.name = r.name
                /\ RatEqual(r.charge, <<s.charge[1] * ELEMENTARY_CHARGE_E22,
                                        s.charge[2] * CHARGE_DIVISOR_E22>>)

\* a round trip whose emitted atom type has another charge than the original
C26_ChargeOff ==
    /\ AtomTypeRoundTripDone
    /\ \E r \in Range(outS.atom_types) :
          \E s \in UsedAtomTypes(inS) : s.name = r.name /\ ~RatEqual(r.charge, s.charge)

(***************************************************************************)
(* C27: the member-type map that from_parmed gives to                      *)
(* _improper_types_from_pmd.                                               *)
(***************************************************************************)
\* the collections that hold instances of improper types
ImproperAttrs == {"impropers", "dihedrals"}

\* the i-th member of S[attr] is an improper with a type: a pmd.Improper or
\* a dihedral flagged improper
IsImproperInstance(S, attr, i) ==
    /\ S[attr][i].type # 0
    /\ attr = "dihedrals" => S[attr][i].improper

\* the first improper of S[attr] that bears the type of the i-th one
FirstImproperInstance(S, attr, i) ==
    MinOf({j \in Bearers(S, attr, KeyOfMember(S, attr, i)) : IsImproperInstance(S, attr, j)})

\* the ImproperType that from_parmed made of the record of the i-th member
ImproperTypeOf(S, T, attr, i) ==
    LET last == Len(T.types) - Len(S.improper_types)
    IN  IF attr = "impropers" THEN T.types[last + S[attr][i].type]
        ELSE T.types[last - Len(S.dihedral_types) + S[attr][i].type]

\* C27: with refer_type the member-type map given to _improper_types_from_pmd
\* has no key that is not a type identity and holds, for every improper type
\* record (a harmonic improper type, or a periodic dihedral type used by a
\* dihedral flagged improper) whose first instance has four non-empty atom
\* type labels, those four labels; the ImproperType made of the record has
\* them as member_types.
C27_ImproperTypesMap ==
    TypesMapsBuilt =>
        /\ \A e \in DOMAIN maps.improper_types_map : maps.improper_types_map[e].key[1] = "id"
        /\ \A attr \in ImproperAttrs : \A i \in DOMAIN inS[attr] :
              LET labels == MemberLabels(inS, inS[attr][i])
                  key == KeyOfMember(inS, attr, i)
              IN  /\ IsImproperInstance(inS, attr, i)
                  /\ FirstImproperInstance(inS, attr, i) = i
                  /\ Resolved(labels)
                  => /\ DictHas(inS, maps.improper_types_map, key)
                     /\ DictGet(inS, maps.improper_types_map, key) = labels
                     /\ ImproperTypeOf(inS, outT, attr, i).member_types = labels

\* what the map holds: the entries of the dihedrals that are not flagged
\* improper, and the key "impropers"
C27_MapOfProperDihedrals ==
    TypesMapsBuilt =>
        /\ DictHas(inS, maps.improper_types_map, StrKey("impropers"))
        /\ \A e \in DOMAIN maps.improper_types_map :
              LET entry == maps.improper_types_map[e]
              IN  entry.key[1] = "id" =>
                      \E i \in DOMAIN inS.dihedrals :
                          /\ ~inS.dihedrals[i].improper
                          /\ KeyOfMember(inS, "dihedrals", i) = entry.key
                          /\ MemberLabels(inS, inS.dihedrals[i]) = entry.val
        /\ \A i \in DOMAIN inS.impropers :
              inS.impropers[i].type # 0 =>
                  ImproperTypeOf(inS, outT, "impropers", i).member_types = None

\* a harmonic improper whose four labels are present and whose ImproperType
\* has no member_types
C27_HarmonicWithoutLabels ==
    /\ TypesMapsBuilt
    /\ \E i \in DOMAIN inS.impropers :
          /\ IsImproperInstance(inS, "impropers", i)
          /\ Resolved(MemberLabels(inS, inS.impropers[i]))
          /\ ImproperTypeOf(inS, outT, "impropers", i).member_types = None

====
